---------------------------- MODULE Spec2Model ----------------------------
(***************************************************************************)
(* Game-time scheduling and overlap-detection engine of the Last War       *)
(* strategy planner: slot resolver, special-event window evaluator,        *)
(* overlap classifier, daily ledger and the slot-swap override.            *)
(*                                                                         *)
(* Instants are whole minutes since 00:00 UTC of the epoch day.  A server  *)
(* wall-clock instant is the UTC instant shifted by the server offset.     *)
(* Text is a sequence of one-character strings.                            *)
(***************************************************************************)
EXTENDS Integers, Sequences, FiniteSets, TLC

VARIABLES
    now,        \* pendulum.now('UTC'), minutes since the epoch
    off,        \* selected server offset in hours (UTC-12 .. UTC+14)
    ctx,        \* the time_ctx dictionary returned by setup_timezone_and_time
    ev,         \* a row of the special events table
    win,        \* a candidate window start (server wall clock)
    inwin,      \* the answer of is_event_in_window for (ev, win)
    kw,         \* the keyword argument of word_in_text
    txt,        \* the text argument of word_in_text
    found,      \* the answer of word_in_text for (kw, txt)
    ar_rows,    \* b_ar: the Arms-Race rows of one (day, slot)
    vs_rows,    \* b_vs: the VS-Duel rows of the same day
    plan,       \* the classification of the slot (status, matched VS events)
    active,     \* the rows of the active daily tasks table
    authorized, \* per template, the activations authorized in the current cycle
    swept,      \* the instant and the table of a sweep that has just run
    df,         \* the persisted schedule (Arms Race and VS rows)
    swap,       \* the content of the daily slot swap file, if it exists
    view,       \* the schedule the dashboard last showed, after apply_slot_swap
    armedAt,    \* the server instant of the last save of a swap, until it is cancelled
    armDays,    \* the server dates of the saves of a swap
    plan24,     \* plan_data: the rows of the 24-hour plan
    sec_file,   \* the secretary event file: missing, or the JSON value it holds
    sec_seen,   \* what the run of a page at the present instant did with the file
    task_names, \* the names given to group_tasks_by_base_name
    grouped_tasks, \* the labels it returned
    templates,  \* the rows of the daily task template file
    restored,   \* the table a Restore Defaults that has just run started from
    called,     \* the last direct call of a slot_swap function: its arguments and its result
    issued,     \* the last activation of a named template: the page, the name and the row written
    edited      \* the special events editor: the times entered, the row saved, the times shown again

clockVars == <<now, off>>
eventVars == <<ev, win, inwin>>
wordVars == <<kw, txt, found>>
overlapVars == <<ar_rows, vs_rows, plan>>
ledgerVars == <<active, authorized, swept>>
swapVars == <<df, swap, view, armedAt, armDays>>
secVars == <<sec_file, sec_seen>>
groupVars == <<task_names, grouped_tasks>>
templateVars == <<templates, restored>>
callVars == <<called>>
nameVars == <<issued>>
editorVars == <<edited>>
laterVars == <<plan24, secVars, groupVars, templateVars, callVars, nameVars, editorVars>>
vars == <<now, off, ctx, ev, win, inwin, kw, txt, found, ar_rows, vs_rows, plan,
          active, authorized, swept, df, swap, view, armedAt, armDays, plan24, sec_file, sec_seen,
          task_names, grouped_tasks, templates, restored, called, issued, edited>>

\* an optional value is the empty sequence or a one-element sequence
None == <<>>
Some(x) == <<x>>
The(opt) == opt[1]

-----------------------------------------------------------------------------
(* Bounds of the model *)

\* instants are sampled every Gran minutes, MaxTick samples after the epoch
Gran == 20
MaxTick == 504
\* candidate windows start on the days 0..MaxDay after the epoch
MaxDay == 34
\* and on the days 0..MaxYearEndDays after the Monday of the last week but
\* one of the ISO year 2026
MaxYearEndDays == 13
\* generated keywords and texts have at most this many characters
MaxKeywordLen == 2
MaxTextLen == 3
\* a day has at most this many VS-Duel rows
MaxVsRows == 2
\* the ledger's clock advances MaxLedgerTicks times by TickMinutes
TickMinutes == 120
MaxLedgerTicks == 3
\* the active tasks table holds at most this many rows
MaxActive == 2
\* at most this many activations of one template are tallied in a cycle
MaxAuthorized == 3
\* the dashboard's clock advances MaxSwapTicks times by SwapTickMinutes
SwapTickMinutes == 120
MaxSwapTicks == 10
\* at most this many swaps are saved
MaxArms == 2
\* the secretary buff is followed up to minute MaxSecNow
MaxSecNow == 16
\* at most this many task names are grouped
MaxTaskNames == 3
\* the template table holds at most this many rows
MaxTemplates == 3

-----------------------------------------------------------------------------
(* Calendar arithmetic (the proleptic Gregorian calendar of pendulum)      *)

MinPerHour == 60
MinPerDay == 1440
SlotMinutes == 240

\* number of days before 1 January of year y, counted from 0001-01-01
DaysBeforeYear(y) ==
    LET p == y - 1
    IN  365 * p + (p \div 4) - (p \div 100) + (p \div 400)

\* ordinal of a date given by year and 1-based day of year (0001-01-01 is 1)
Ordinal(y, doy) == DaysBeforeYear(y) + doy

\* the epoch day: Monday 2025-12-01 (day 335 of 2025)
EpochOrdinal == Ordinal(2025, 335)

Years == 2024..2029

YearOf(ord) ==
    CHOOSE y \in Years : DaysBeforeYear(y) < ord /\ ord <= DaysBeforeYear(y + 1)

\* 0 = Monday .. 6 = Sunday
WeekdayOf(ord) == (ord - 1) % 7

\* ISO-8601 week number: the week belongs to the year of its Thursday
IsoWeek(ord) ==
    LET thu == ord - WeekdayOf(ord) + 3
        y   == YearOf(thu)
    IN  ((thu - DaysBeforeYear(y) - 1) \div 7) + 1

DayNames ==
    <<"Monday", "Tuesday", "Wednesday", "Thursday", "Friday", "Saturday", "Sunday">>

\* wall-clock decomposition of an instant (minutes since the epoch)
DayIndex(t) == t \div MinPerDay
MinuteOfDay(t) == t % MinPerDay
HourOf(t) == MinuteOfDay(t) \div MinPerHour
StartOfDay(t) == DayIndex(t) * MinPerDay
OrdinalOf(t) == EpochOrdinal + DayIndex(t)
\* DateTime.format('dddd')
DayName(t) == DayNames[WeekdayOf(OrdinalOf(t)) + 1]
\* DateTime.week_of_year
WeekOfYear(t) == IsoWeek(OrdinalOf(t))

\* the selectable server offsets: range(-12, 15)
ServerOffsets == (0 - 12)..14

\* pendulum.now(server_tz): the server wall clock of a UTC instant
ToServer(t, o) == t + o * MinPerHour

\* the UTC instant of a server wall-clock instant
FromServer(w, o) == w - o * MinPerHour

-----------------------------------------------------------------------------
(* Clock & slot resolver                                                   *)

SLOT_START_HOURS == <<0, 4, 8, 12, 16, 20>>

\* the resolver of the 02:00-reset iteration: slot 1 starts at 02:00
setup_timezone_and_time_reset2(t, o) ==
    LET now_server   == ToServer(t, o)
        current_slot == (((HourOf(now_server) - 2) % 24) \div 4) + 1
        start_hour   == <<2, 6, 10, 14, 18, 22>>[current_slot]
        game_start   == IF HourOf(now_server) < 2
                        THEN StartOfDay(now_server) - MinPerDay
                        ELSE StartOfDay(now_server)
    IN  [ now_utc        |-> t,
          now_server     |-> now_server,
          current_slot   |-> current_slot,
          active_start   |-> game_start + start_hour * MinPerHour,
          game_day_start |-> game_start + 2 * MinPerHour,
          vs_day         |-> DayName(game_start),
          ar_day         |-> DayName(game_start) ]

\* setup_timezone_and_time, the time calculations after the sidebar
setup_timezone_and_time(t, o) ==
    LET now_server   == ToServer(t, o)
        current_slot == (HourOf(now_server) \div 4) + 1
        start_hour   == SLOT_START_HOURS[current_slot]
    IN  [ now_utc        |-> t,
          now_server     |-> now_server,
          current_slot   |-> current_slot,
          active_start   |-> StartOfDay(now_server) + start_hour * MinPerHour,
          game_day_start |-> StartOfDay(now_server),
          vs_day         |-> DayName(now_server),
          ar_day         |-> DayName(now_server) ]

Instants == { k * Gran : k \in 0..MaxTick }

IdleResolver == ctx = None
IdleEvent == ev = None /\ win = 0 /\ inwin = None
IdleWord == kw = <<>> /\ txt = <<>> /\ found = None
IdleOverlap == ar_rows = <<>> /\ vs_rows = <<>> /\ plan = None
IdleLedger == active = <<>> /\ authorized = <<>> /\ swept = None
IdleSwap == df = <<>> /\ swap = None /\ view = None /\ armedAt = None /\ armDays = <<>>
IdleSec == sec_file = <<>> /\ sec_seen = None
IdlePlan == plan24 = None
IdleGroup == task_names = <<>> /\ grouped_tasks = None
IdleTemplates == templates = <<>> /\ restored = None
IdleCall == called = None
IdleNames == issued = None
IdleEditor == edited = None
IdleLater ==
    IdlePlan /\ IdleSec /\ IdleGroup /\ IdleTemplates /\ IdleCall /\ IdleNames /\ IdleEditor

InitResolver ==
    /\ now \in Instants
    /\ off \in ServerOffsets
    /\ ctx = None
    /\ IdleEvent /\ IdleWord /\ IdleOverlap /\ IdleLedger /\ IdleSwap /\ IdleLater

\* one run of the script: the sidebar returns the time context
Resolve ==
    /\ ctx = None
    /\ ctx' = Some(setup_timezone_and_time(now, off))
    /\ UNCHANGED <<clockVars, eventVars, wordVars, overlapVars, ledgerVars, swapVars, laterVars>>

\* a plan row that starts i slots after the present instant
PlanRowFromNow(c, i) ==
    LET b_srv == c.now_server + i * 4 * MinPerHour
    IN  [ Day        |-> DayName(b_srv),
          slot       |-> (HourOf(b_srv) \div 4) + 1,
          start      |-> b_srv,
          end        |-> b_srv + 4 * MinPerHour,
          is_current |-> (b_srv <= c.now_server /\ c.now_server < b_srv + 4 * MinPerHour) ]

\* row i of the 24-hour plan: b_game_day, b_slot_n, the window and is_current
PlanRow(c, i) ==
    LET b_srv == c.active_start + i * 4 * MinPerHour
    IN  [ Day        |-> DayName(b_srv),
          slot       |-> (HourOf(b_srv) \div 4) + 1,
          start      |-> b_srv,
          end        |-> b_srv + 4 * MinPerHour,
          is_current |-> (b_srv <= c.now_server /\ c.now_server < b_srv + 4 * MinPerHour) ]

\* the dashboard builds the plan from the time context
BuildPlan ==
    /\ ctx # None
    /\ plan24 = None
    /\ plan24' = Some([ k \in 1..6 |-> PlanRow(The(ctx), k - 1) ])
    /\ UNCHANGED <<clockVars, ctx, eventVars, wordVars, overlapVars, ledgerVars, swapVars, secVars, groupVars, templateVars, callVars, nameVars, editorVars>>

NextResolver ==
    \/ Resolve
    \/ BuildPlan

SpecResolver == InitResolver /\ [][NextResolver]_vars

\* the slot windows of the game day that starts at server midnight d0
SlotWindow(d0, k) ==
    [ start |-> d0 + SLOT_START_HOURS[k] * MinPerHour,
      end   |-> d0 + SLOT_START_HOURS[k] * MinPerHour + SlotMinutes ]

InWindow(w, t) == w.start <= t /\ t < w.end

\* C1: every instant resolves to one (game day, slot) pair, slot = hour div 4 + 1
\* in 1..6, game day = server weekday; the six windows of a game day are
\* pairwise disjoint and tile exactly its 24 hours, and the resolved slot is
\* the one window that holds the instant.
C1_SlotCoverage ==
    ctx # None =>
        LET c  == The(ctx)
            s  == c.now_server
            d0 == StartOfDay(s)
        IN  /\ c.current_slot \in 1..6
            /\ c.current_slot = (HourOf(s) \div 4) + 1
            /\ c.ar_day = DayNames[WeekdayOf(OrdinalOf(s)) + 1]
            /\ c.vs_day = c.ar_day
            /\ c.active_start = SlotWindow(d0, c.current_slot).start
            /\ \A k \in 1..6 : InWindow(SlotWindow(d0, k), s) <=> k = c.current_slot
            /\ \A j, k \in 1..6 :
                   j < k => SlotWindow(d0, j).end <= SlotWindow(d0, k).start
            /\ SlotWindow(d0, 1).start = d0
            /\ SlotWindow(d0, 6).end = d0 + MinPerDay
            /\ \A k \in 1..5 : SlotWindow(d0, k).end = SlotWindow(d0, k + 1).start

\* a resolved instant in the last slot of a server day, west of UTC
C1_Witness ==
    /\ ctx # None
    /\ off < 0
    /\ The(ctx).current_slot = 6
    /\ MinuteOfDay(The(ctx).now_server) > 20 * MinPerHour

\* the offsets, inside a 4-hour window, of the instants that are resolved
PlanProbes == { 0, 1, 2 * MinPerHour, SlotMinutes - 1 }

\* C14: the plan has six rows; row i covers [active_start + 4i h,
\* active_start + 4(i+1) h), so the rows are contiguous, in order and span 24
\* hours; the day and slot of a row are what the resolver returns for the
\* instants of its window, the slot advances cyclically and the day advances
\* exactly when the slot wraps from 6 to 1; only row 0 holds now.
C14_PlanRows ==
    plan24 # None =>
        LET c    == The(ctx)
            rows == The(plan24)
        IN  /\ Len(rows) = 6
            /\ \A k \in 1..6 :
                   /\ rows[k].start = c.active_start + (k - 1) * SlotMinutes
                   /\ rows[k].end = c.active_start + k * SlotMinutes
                   /\ rows[k].is_current <=> k = 1
                   /\ InWindow(rows[k], c.now_server) <=> k = 1
                   /\ \A m \in PlanProbes :
                          LET r == setup_timezone_and_time(FromServer(rows[k].start + m, off), off)
                          IN  r.ar_day = rows[k].Day /\ r.current_slot = rows[k].slot
            /\ \A k \in 1..5 :
                   /\ rows[k + 1].start = rows[k].end
                   /\ rows[k + 1].slot = (rows[k].slot % 6) + 1
                   /\ rows[k + 1].Day = IF rows[k].slot = 6
                                        THEN DayName(rows[k].start + MinPerDay)
                                        ELSE rows[k].Day
            /\ rows[6].end - rows[1].start = MinPerDay

\* a plan built in slot 4, late in its window: row 4 is slot 1 of the next day
C14_Witness ==
    /\ plan24 # None
    /\ The(ctx).current_slot = 4
    /\ The(ctx).now_server > The(ctx).active_start + 2 * MinPerHour
    /\ The(plan24)[1].is_current
    /\ The(plan24)[4].slot = 1
    /\ The(plan24)[4].Day = DayName(The(ctx).now_server + MinPerDay)

\* days.index(day_of_week), counted from 0
DayPosition(day_of_week) == (CHOOSE i \in 1..7 : DayNames[i] = day_of_week) - 1

\* the reference mapping with the slot taken from the hour as it is
calculate_current_slot_and_window_unshifted(hour, day_of_week) ==
    LET current_slot     == (hour \div 4) + 1
        slot_start_hours == <<22, 2, 6, 10, 14, 18>>
        start_hour       == slot_start_hours[current_slot]
        current_day_idx  == DayPosition(day_of_week)
        game_day         == IF hour >= 22
                            THEN DayNames[((current_day_idx + 1) % 7) + 1]
                            ELSE day_of_week
    IN  [current_slot |-> current_slot, start_hour |-> start_hour, game_day |-> game_day]

\* calculate_current_slot_and_window(hour, day_of_week) of test_active_slot.py
calculate_current_slot_and_window(hour, day_of_week) ==
    LET current_slot     == (((hour - 22) % 24) \div 4) + 1
        slot_start_hours == <<22, 2, 6, 10, 14, 18>>
        start_hour       == slot_start_hours[current_slot]
        current_day_idx  == DayPosition(day_of_week)
        game_day         == IF hour >= 22
                            THEN DayNames[((current_day_idx + 1) % 7) + 1]
                            ELSE day_of_week
    IN  [current_slot |-> current_slot, start_hour |-> start_hour, game_day |-> game_day]

\* calculate_slot_and_day(hour, day_name) of test_slot_calculation.py
calculate_slot_and_day(hour, day_name) ==
    LET game_day == IF hour >= 22 THEN "Next day" ELSE day_name
        slot     == (((hour - 22) % 24) \div 4) + 1
    IN  [game_day |-> game_day, slot |-> slot]

\* C18: for the clock two hours behind the server clock, the tests' mapping
\* of its hour and weekday gives the slot and the game day the resolver
\* gives, and its start hour begins the 4-hour window that holds the hour.
C18_TestsAgree ==
    (ctx # None /\ off = 2) =>
        LET c    == The(ctx)
            h    == HourOf(now)
            d    == DayName(now)
            ref  == calculate_current_slot_and_window(h, d)
            ref2 == calculate_slot_and_day(h, d)
        IN  /\ HourOf(c.now_server) = (h + 2) % 24
            /\ ref.current_slot = c.current_slot
            /\ ref2.slot = c.current_slot
            /\ ref.game_day = c.ar_day
            /\ ref2.game_day = IF h >= 22 THEN "Next day" ELSE c.ar_day
            /\ h >= 22 <=> c.ar_day # d
            /\ (h - ref.start_hour) % 24 < 4
            /\ HourOf(FromServer(c.active_start, off)) = ref.start_hour

\* Sunday 23:00 on that clock resolves to Monday, slot 1, window from 22:00
C18_Witness ==
    /\ ctx # None /\ off = 2
    /\ HourOf(now) = 23 /\ DayName(now) = "Sunday"
    /\ The(ctx).ar_day = "Monday"
    /\ The(ctx).current_slot = 1
    /\ calculate_current_slot_and_window(23, "Sunday").start_hour = 22

-----------------------------------------------------------------------------
(* Recurrence window evaluator                                             *)

AllDays == { DayNames[i] : i \in 1..7 }

HM(h, m) == [h |-> h, m |-> m]

\* is_event_in_window without the week-parity test
is_event_in_window_weekly(event_row, window_start) ==
    IF DayName(window_start) \notin event_row.days
    THEN FALSE
    ELSE LET base      == StartOfDay(window_start)
             evt_start == base + event_row.start_time.h * MinPerHour
                               + event_row.start_time.m
             end0      == base + event_row.end_time.h * MinPerHour
                               + event_row.end_time.m
             evt_end   == IF end0 <= evt_start THEN end0 + MinPerDay ELSE end0
             win_start == window_start
             win_end   == window_start + SlotMinutes
         IN  evt_start < win_end /\ evt_end > win_start

\* is_event_in_window with the end kept on the window's date even when it is
\* not after the start
is_event_in_window_same_day(event_row, window_start) ==
    IF DayName(window_start) \notin event_row.days
    THEN FALSE
    ELSE IF /\ event_row.freq = "biweekly"
            /\ (WeekOfYear(window_start) % 2) # (event_row.ref_week % 2)
    THEN FALSE
    ELSE LET base      == StartOfDay(window_start)
             evt_start == base + event_row.start_time.h * MinPerHour
                               + event_row.start_time.m
             evt_end   == base + event_row.end_time.h * MinPerHour
                               + event_row.end_time.m
             win_start == window_start
             win_end   == window_start + SlotMinutes
         IN  evt_start < win_end /\ evt_end > win_start

\* is_event_in_window(event_row, window_start); start_time and end_time are
\* the (hour, minute) pairs that split(':') and int() read from "HH:MM"
is_event_in_window(event_row, window_start) ==
    IF DayName(window_start) \notin event_row.days
    THEN FALSE
    ELSE IF /\ event_row.freq = "biweekly"
            /\ (WeekOfYear(window_start) % 2) # (event_row.ref_week % 2)
    THEN FALSE
    ELSE LET base      == StartOfDay(window_start)
             evt_start == base + event_row.start_time.h * MinPerHour
                               + event_row.start_time.m
             end0      == base + event_row.end_time.h * MinPerHour
                               + event_row.end_time.m
             evt_end   == IF end0 <= evt_start THEN end0 + MinPerDay ELSE end0
             win_start == window_start
             win_end   == window_start + SlotMinutes
         IN  evt_start < win_end /\ evt_end > win_start

EventDaySets == { AllDays, {"Monday", "Thursday"}, {"Sunday"} }

EventTimes ==
    { <<HM(22, 0), HM(2, 0)>>, <<HM(0, 0), HM(23, 59)>>, <<HM(2, 0), HM(1, 59)>>,
      <<HM(8, 0), HM(12, 0)>>, <<HM(12, 30), HM(12, 45)>> }

EventRecurrences ==
    { <<"weekly", 0>>, <<"biweekly", 0>>, <<"biweekly", 1>>, <<"biweekly", 2>> }

EventRows ==
    { [ days |-> d, freq |-> r[1], ref_week |-> r[2],
        start_time |-> tm[1], end_time |-> tm[2] ] :
      d \in EventDaySets, r \in EventRecurrences, tm \in EventTimes }

WindowHours == {0, 2, 4, 8, 12, 16, 20, 22}

\* Monday 2026-12-21 (day 355 of 2026), the first day of ISO week 52 of a
\* year of 53 weeks, in days after the epoch
LongYearEnd == Ordinal(2026, 355) - EpochOrdinal

WindowDays == (0..MaxDay) \cup (LongYearEnd..(LongYearEnd + MaxYearEndDays))

WindowStarts == { d * MinPerDay + h * MinPerHour : d \in WindowDays, h \in WindowHours }

InitEvent ==
    /\ ev \in EventRows
    /\ win \in WindowStarts
    /\ inwin = None
    /\ now = 0 /\ off = 0
    /\ IdleResolver /\ IdleWord /\ IdleOverlap /\ IdleLedger /\ IdleSwap /\ IdleLater

\* the plan builder asks whether the event is active in the window
Evaluate ==
    /\ inwin = None
    /\ inwin' = Some(is_event_in_window(ev, win))
    /\ UNCHANGED <<clockVars, ctx, ev, win, wordVars, overlapVars, ledgerVars, swapVars, laterVars>>

NextEvent == Evaluate

SpecEvent == InitEvent /\ [][NextEvent]_vars

\* the window starts on a day of the event, and so did the previous day's windows
OnActiveDays ==
    /\ DayName(win) \in ev.days
    /\ DayName(win - MinPerDay) \in ev.days
    /\ ev.freq = "weekly"

\* C2: a 22:00-02:00 event on active days is in the windows [20:00,00:00),
\* [22:00,02:00) and [00:00,04:00) and not in [04:00,08:00)
C2_MidnightWrap ==
    ( /\ inwin # None
      /\ ev.start_time = HM(22, 0) /\ ev.end_time = HM(2, 0)
      /\ OnActiveDays ) =>
        /\ MinuteOfDay(win) \in {20 * MinPerHour, 22 * MinPerHour, 0} => The(inwin) = TRUE
        /\ MinuteOfDay(win) = 4 * MinPerHour => The(inwin) = FALSE

\* C10: a biweekly event of reference parity 0 is in no window that starts in
\* an odd ISO week, and in a window that starts in an even ISO week exactly
\* when the weekly event of the same days and times is
C10_BiweeklyParity ==
    ( /\ inwin # None
      /\ ev.freq = "biweekly"
      /\ ev.ref_week % 2 = 0 ) =>
        /\ IsoWeek(OrdinalOf(win)) % 2 = 1 => The(inwin) = FALSE
        /\ IsoWeek(OrdinalOf(win)) % 2 = 0 =>
               The(inwin) = is_event_in_window([ev EXCEPT !.freq = "weekly"], win)

\* an evaluated biweekly event of parity 0 that is active in an even week,
\* on a day and in a window where the weekly event is active in odd weeks too
C10_Witness ==
    /\ inwin = Some(TRUE)
    /\ ev.freq = "biweekly"
    /\ ev.ref_week = 2
    /\ IsoWeek(OrdinalOf(win)) % 2 = 0
    /\ is_event_in_window([ev EXCEPT !.freq = "weekly"], win + 7 * MinPerDay)

\* the window starts where one of the six slots starts
IsSlotWindow(window_start) ==
    \E i \in 1..Len(SLOT_START_HOURS) :
        MinuteOfDay(window_start) = SLOT_START_HOURS[i] * MinPerHour

IsAllDay(event_row) ==
    \/ event_row.start_time = HM(0, 0) /\ event_row.end_time = HM(23, 59)
    \/ event_row.start_time = HM(2, 0) /\ event_row.end_time = HM(1, 59)

\* C11: an event stored as 00:00-23:59 or as 02:00-01:59 is in every slot
\* window that starts on one of its days and, when it is biweekly, in a week
\* of its parity
C11_AllDay ==
    ( /\ inwin # None
      /\ IsAllDay(ev)
      /\ IsSlotWindow(win)
      /\ DayName(win) \in ev.days
      /\ ev.freq = "biweekly" => IsoWeek(OrdinalOf(win)) % 2 = ev.ref_week % 2 ) =>
        The(inwin) = TRUE

\* an evaluated biweekly 02:00-01:59 event in the slot window that starts
\* at midnight of one of its days, in a week of its parity
C11_Witness ==
    /\ inwin = Some(TRUE)
    /\ ev.start_time = HM(2, 0) /\ ev.end_time = HM(1, 59)
    /\ ev.freq = "biweekly" /\ ev.ref_week = 1
    /\ ev.days = {"Sunday"}
    /\ MinuteOfDay(win) = 0
    /\ DayName(win) = "Sunday"

\* C30: for a biweekly event, of two windows a week apart that its days and
\* times admit, exactly one is in an active week: the event is active in
\* one of any two consecutive calendar weeks and inactive in the other, the
\* weeks around the turn of an ISO year of 53 weeks included.
C30_BiweeklyAlternates ==
    ( /\ inwin # None
      /\ ev.freq = "biweekly"
      /\ is_event_in_window([ev EXCEPT !.freq = "weekly"], win) )
        => (is_event_in_window(ev, win) # is_event_in_window(ev, win + 7 * MinPerDay))

-----------------------------------------------------------------------------
(* Text: whole-word matching                                               *)

LowerCase ==
    <<"a", "b", "c", "d", "e", "f", "g", "h", "i", "j", "k", "l", "m", "n", "o", "p", "q", "r", "s", "t", "u", "v", "w", "x", "y", "z">>

UpperCase ==
    <<"A", "B", "C", "D", "E", "F", "G", "H", "I", "J", "K", "L", "M", "N", "O", "P", "Q", "R", "S", "T", "U", "V", "W", "X", "Y", "Z">>

Digits == <<"0", "1", "2", "3", "4", "5", "6", "7", "8", "9">>

Range(seq) == { seq[i] : i \in 1..Len(seq) }

\* str.lower() on one character
LowerChar(c) ==
    IF c \in Range(UpperCase)
    THEN LowerCase[CHOOSE i \in 1..Len(UpperCase) : UpperCase[i] = c]
    ELSE c

\* str.lower()
Lower(s) == [i \in 1..Len(s) |-> LowerChar(s[i])]

\* the regular expression class \w
IsWordChar(c) == c \in Range(LowerCase) \cup Range(UpperCase) \cup Range(Digits) \cup {"_"}

\* the regular expression assertion \b at offset p of s (0 .. Len(s)):
\* exactly one of the characters before and after p is a word character
WordBoundary(s, p) ==
    (p > 0 /\ IsWordChar(s[p])) # (p < Len(s) /\ IsWordChar(s[p + 1]))

\* keyword.lower() in text.lower(): plain substring containment
substring_in_text(keyword, text) ==
    LET k == Lower(keyword)
        t == Lower(text)
    IN  \E p \in 0..(Len(t) - Len(k)) : SubSeq(t, p + 1, p + Len(k)) = k

\* word_in_text(keyword, text): re.search(r'\b' + re.escape(k) + r'\b', t)
word_in_text(keyword, text) ==
    LET k == Lower(keyword)
        t == Lower(text)
    IN  \E p \in 0..(Len(t) - Len(k)) :
            /\ WordBoundary(t, p)
            /\ SubSeq(t, p + 1, p + Len(k)) = k
            /\ WordBoundary(t, p + Len(k))

\* every sequence over alphabet of length lo..hi
RECURSIVE SeqsUpTo(_, _)
SeqsUpTo(alphabet, n) ==
    IF n = 0 THEN { <<>> }
    ELSE LET shorter == SeqsUpTo(alphabet, n - 1)
         IN  shorter \cup { Append(s, c) : s \in shorter, c \in alphabet }

WordAlphabet == { "a", "A", "b", " ", "-", "_" }

NamedWordCases ==
    { <<<<"a", "r", "t">>, <<"c", "a", "r", "t", "a", "g", "e">>>>,
      <<<<"t", "e", "s", "t">>, <<"t", "e", "s", "t", "i", "n", "g">>>>,
      <<<<"t", "e", "s", "t">>, <<"t", "h", "i", "s", " ", "i", "s", " ", "a", " ", "t", "e", "s", "t">>>>,
      <<<<"T", "E", "S", "T">>, <<"t", "h", "i", "s", " ", "i", "s", " ", "a", " ", "t", "e", "s", "t">>>>,
      <<<<"H", "e", "r", "o">>, <<"H", "e", "r", "o", " ", "S", "h", "a", "r", "d">>>>,
      <<<<"H", "e", "r", "o">>, <<"h", "e", "r", "o">>>>,
      <<<<"H", "e", "r", "o">>, <<"S", "u", "p", "e", "r", "h", "e", "r", "o">>>>,
      <<<<"T", "r", "a", "i", "n">>, <<"T", "r", "a", "i", "n", " ", "T", "8", " ", "U", "n", "i", "t">>>> }

WordCases ==
    NamedWordCases \cup
    { <<k, t>> : k \in SeqsUpTo(WordAlphabet, MaxKeywordLen) \ { <<>> },
                 t \in SeqsUpTo(WordAlphabet, MaxTextLen) }

InitWord ==
    /\ \E c \in WordCases : kw = c[1] /\ txt = c[2]
    /\ found = None
    /\ now = 0 /\ off = 0
    /\ IdleResolver /\ IdleEvent /\ IdleOverlap /\ IdleLedger /\ IdleSwap /\ IdleLater

\* a caller tests one keyword against one text
Search ==
    /\ found = None
    /\ found' = Some(word_in_text(kw, txt))
    /\ UNCHANGED <<clockVars, ctx, eventVars, kw, txt, overlapVars, ledgerVars, swapVars, laterVars>>

NextWord == Search

SpecWord == InitWord /\ [][NextWord]_vars

\* the lower-cased keyword occurs at offset p of the lower-cased text with no
\* word character immediately before or after it
WholeWordAt(keyword, text, p) ==
    LET k == Lower(keyword)
        t == Lower(text)
    IN  /\ p + Len(k) <= Len(t)
        /\ \A i \in 1..Len(k) : t[p + i] = k[i]
        /\ (p = 0 \/ ~IsWordChar(t[p]))
        /\ (p + Len(k) = Len(t) \/ ~IsWordChar(t[p + Len(k) + 1]))

WholeWord(keyword, text) == \E p \in 0..Len(text) : WholeWordAt(keyword, text, p)

\* C9: for a keyword that begins and ends with a word character, word_in_text
\* is true iff the lower-cased keyword occurs in the lower-cased text neither
\* preceded nor followed by a word character; 'art' is not in 'cartage',
\* 'test' not in 'testing', 'Hero' is in 'Hero Shard' and in 'hero'
C9_WholeWord ==
    ( /\ found # None
      /\ Len(kw) > 0
      /\ IsWordChar(kw[1]) /\ IsWordChar(kw[Len(kw)]) ) =>
        /\ The(found) <=> WholeWord(kw, txt)
        /\ (kw = <<"a", "r", "t">> /\ txt = <<"c", "a", "r", "t", "a", "g", "e">>) => ~The(found)
        /\ (kw = <<"t", "e", "s", "t">> /\ txt = <<"t", "e", "s", "t", "i", "n", "g">>) => ~The(found)
        /\ (kw = <<"H", "e", "r", "o">> /\ txt = <<"H", "e", "r", "o", " ", "S", "h", "a", "r", "d">>) => The(found)
        /\ (kw = <<"H", "e", "r", "o">> /\ txt = <<"h", "e", "r", "o">>) => The(found)

\* a searched keyword that occurs in the text, but only inside a longer word
C9_Witness ==
    /\ found = Some(FALSE)
    /\ kw = <<"a", "r", "t">>
    /\ substring_in_text(kw, txt)

-----------------------------------------------------------------------------
(* Overlap classifier ("double value")                                     *)

OVERLAP_MAP ==
    << <<<<"B", "a", "s", "e">>, <<<<"B", "u", "i", "l", "d", "i", "n", "g", " ", "P", "o", "w", "e", "r">>, <<"C", "o", "n", "s", "t", "r", "u", "c", "t", "i", "o", "n", " ", "S", "p", "e", "e", "d", "u", "p">>, <<"B", "u", "i", "l", "d", "i", "n", "g">>, <<"C", "o", "n", "s", "t", "r", "u", "c", "t", "i", "o", "n">>>> >>,
       <<<<"T", "e", "c", "h">>, <<<<"T", "e", "c", "h", " ", "P", "o", "w", "e", "r">>, <<"R", "e", "s", "e", "a", "r", "c", "h", " ", "S", "p", "e", "e", "d", "u", "p">>, <<"R", "e", "s", "e", "a", "r", "c", "h">>>> >>,
       <<<<"H", "e", "r", "o">>, <<<<"H", "e", "r", "o", " ", "R", "e", "c", "r", "u", "i", "t", "m", "e", "n", "t">>, <<"H", "e", "r", "o", " ", "E", "X", "P">>, <<"H", "e", "r", "o", " ", "S", "h", "a", "r", "d">>, <<"H", "e", "r", "o">>, <<"R", "e", "c", "r", "u", "i", "t", "m", "e", "n", "t">>>> >>,
       <<<<"U", "n", "i", "t">>, <<<<"T", "r", "a", "i", "n", " ", "T", "8", " ", "U", "n", "i", "t">>, <<"T", "r", "a", "i", "n", "i", "n", "g", " ", "S", "p", "e", "e", "d", "u", "p">>, <<"T", "r", "a", "i", "n", "i", "n", "g">>, <<"T", "r", "a", "i", "n">>, <<"U", "n", "i", "t">>>> >>,
       <<<<"D", "r", "o", "n", "e">>, <<<<"D", "r", "o", "n", "e", " ", "D", "a", "t", "a", " ", "P", "o", "i", "n", "t">>, <<"D", "r", "o", "n", "e", " ", "C", "o", "m", "p", "o", "n", "e", "n", "t">>, <<"D", "r", "o", "n", "e", " ", "P", "a", "r", "t">>, <<"S", "t", "a", "m", "i", "n", "a">>, <<"D", "r", "o", "n", "e">>>> >>,
       <<<<"A", "l", "l", "-", "R", "o", "u", "n", "d", "e", "r">>, <<<<"H", "e", "r", "o">>, <<"B", "u", "i", "l", "d", "i", "n", "g">>, <<"R", "e", "s", "e", "a", "r", "c", "h">>, <<"T", "r", "a", "i", "n">>, <<"C", "o", "n", "s", "t", "r", "u", "c", "t", "i", "o", "n">>, <<"D", "r", "o", "n", "e">>>> >> >>

\* OVERLAP_MAP.get(key, default)
OverlapGet(key, default) ==
    IF \E i \in 1..Len(OVERLAP_MAP) : OVERLAP_MAP[i][1] = key
    THEN OVERLAP_MAP[CHOOSE i \in 1..Len(OVERLAP_MAP) : OVERLAP_MAP[i][1] = key][2]
    ELSE default

IsSpace(c) == c = " "

\* str.split()[0]: the first whitespace-delimited token
RECURSIVE TakeToken(_)
TakeToken(s) ==
    IF s = <<>> \/ IsSpace(Head(s)) THEN <<>>
    ELSE <<Head(s)>> \o TakeToken(Tail(s))

RECURSIVE FirstToken(_)
FirstToken(s) ==
    IF s = <<>> THEN <<>>
    ELSE IF IsSpace(Head(s)) THEN FirstToken(Tail(s))
    ELSE TakeToken(s)

\* " ".join(strings)
RECURSIVE JoinSpace(_)
JoinSpace(strings) ==
    IF strings = <<>> THEN <<>>
    ELSE IF Len(strings) = 1 THEN strings[1]
    ELSE strings[1] \o <<" ">> \o JoinSpace(Tail(strings))

Column(rows, col) == [i \in 1..Len(rows) |-> rows[i][col]]

BuildingWords == << <<"b", "u", "i", "l", "d", "i", "n", "g">>, <<"c", "o", "n", "s", "t", "r", "u", "c", "t", "i", "o", "n">> >>

\* the keyword test of one VS row, without the building/construction rule
RowMatchesKeywordsOnly(keywords, ar_full_text, vs_row) ==
    \E i \in 1..Len(keywords) :
        word_in_text(keywords[i], Lower(vs_row.Event)) \/ word_in_text(keywords[i], Lower(vs_row.Task))

\* the condition of the if inside the loop over the VS rows
RowMatches(keywords, ar_full_text, vs_row) ==
    LET vs_event == Lower(vs_row.Event)
        vs_task  == Lower(vs_row.Task)
    IN  \/ \E i \in 1..Len(keywords) :
               word_in_text(keywords[i], vs_event) \/ word_in_text(keywords[i], vs_task)
        \/ /\ \E i \in 1..Len(BuildingWords) : word_in_text(BuildingWords[i], ar_full_text)
           /\ \E i \in 1..Len(BuildingWords) :
                  word_in_text(BuildingWords[i], vs_event) \/ word_in_text(BuildingWords[i], vs_task)

\* the loop over b_vs that stops at the first matching row
RECURSIVE ScanStatus(_, _, _)
ScanStatus(keywords, ar_full_text, rows) ==
    IF rows = <<>> THEN "1x"
    ELSE IF RowMatches(keywords, ar_full_text, Head(rows)) THEN "2x"
    ELSE ScanStatus(keywords, ar_full_text, Tail(rows))

\* the loop over b_vs that collects the Event of every matching row
RECURSIVE ScanSkills(_, _, _)
ScanSkills(keywords, ar_full_text, rows) ==
    IF rows = <<>> THEN <<>>
    ELSE (IF RowMatches(keywords, ar_full_text, Head(rows)) THEN <<Head(rows).Event>> ELSE <<>>)
         \o ScanSkills(keywords, ar_full_text, Tail(rows))

ArFullText(b_ar) ==
    Lower(b_ar[1].Event \o <<" ">> \o JoinSpace(Column(b_ar, "Task")))

ArKeywords(b_ar) ==
    LET ar_root == FirstToken(b_ar[1].Event)
    IN  OverlapGet(ar_root, <<Lower(ar_root)>>)

\* the Optimization status of one plan row
OptimizationStatus(b_ar, b_vs) ==
    IF b_ar # <<>> /\ b_vs # <<>>
    THEN ScanStatus(ArKeywords(b_ar), ArFullText(b_ar), b_vs)
    ELSE "1x"

\* the banner's overlapping_skills of one scanned slot
OverlappingSkills(b_ar, b_vs) ==
    IF b_ar # <<>> /\ b_vs # <<>>
    THEN ScanSkills(ArKeywords(b_ar), ArFullText(b_ar), b_vs)
    ELSE <<>>

Row(event, task) == [Event |-> event, Task |-> task]

HeroSlot == << Row(<<"H", "e", "r", "o", " ", "D", "e", "v", "e", "l", "o", "p", "m", "e", "n", "t">>, <<"U", "p", "g", "r", "a", "d", "e", " ", "H", "e", "r", "o">>) >>

ArSlots ==
    { <<>>,
      HeroSlot,
      << Row(<<"h", "e", "r", "o", " ", "d", "e", "v", "e", "l", "o", "p", "m", "e", "n", "t">>, <<"U", "p", "g", "r", "a", "d", "e">>) >>,
      << Row(<<"B", "a", "s", "e", " ", "B", "u", "i", "l", "d", "i", "n", "g">>, <<"B", "u", "i", "l", "d", "i", "n", "g", " ", "P", "o", "w", "e", "r">>) >>,
      << Row(<<"C", "i", "t", "y", " ", "B", "u", "i", "l", "d", "i", "n", "g">>, <<"S", "p", "e", "n", "d", " ", "S", "p", "e", "e", "d", "u", "p", "s">>) >>,
      << Row(<<"A", "r", "t", " ", "S", "h", "o", "w">>, <<"C", "o", "l", "l", "e", "c", "t">>) >>,
      << Row(<<"A", "g", "e", " ", "A", "d", "v", "a", "n", "c", "e">>, <<"G", "a", "t", "h", "e", "r">>), Row(<<"A", "g", "e", " ", "A", "d", "v", "a", "n", "c", "e">>, <<"C", "o", "n", "s", "t", "r", "u", "c", "t", "i", "o", "n">>) >>,
      << Row(<<"U", "n", "i", "t", " ", "P", "r", "o", "g", "r", "e", "s", "s", "i", "o", "n">>, <<"T", "r", "a", "i", "n">>) >>,
      << Row(<<"A", "l", "l", "-", "R", "o", "u", "n", "d", "e", "r">>, <<"A", "n", "y">>) >> }

HeroShardRow == Row(<<"H", "e", "r", "o", " ", "R", "e", "c", "r", "u", "i", "t", "m", "e", "n", "t">>, <<"H", "e", "r", "o", " ", "S", "h", "a", "r", "d">>)

VsRows ==
    { HeroShardRow,
      Row(<<"H", "e", "r", "o", " ", "R", "e", "c", "r", "u", "i", "t", "m", "e", "n", "t">>, <<"H", "e", "r", "o", " ", "E", "X", "P">>),
      Row(<<"C", "a", "r", "t", "a", "g", "e", " ", "D", "a", "y">>, <<"M", "o", "v", "e", " ", "C", "a", "r", "t", "a", "g", "e">>),
      Row(<<"C", "o", "n", "s", "t", "r", "u", "c", "t", "i", "o", "n", " ", "D", "a", "y">>, <<"U", "s", "e", " ", "S", "p", "e", "e", "d", "u", "p">>),
      Row(<<"E", "n", "e", "m", "y", " ", "B", "u", "s", "t", "e", "r">>, <<"K", "i", "l", "l", " ", "U", "n", "i", "t", "s">>),
      Row(<<"A", "g", "e", " ", "o", "f", " ", "S", "c", "i", "e", "n", "c", "e">>, <<"T", "e", "c", "h", " ", "P", "o", "w", "e", "r">>),
      Row(<<"B", "a", "s", "e", " ", "E", "x", "p", "a", "n", "s", "i", "o", "n">>, <<"R", "e", "b", "u", "i", "l", "d", "i", "n", "g">>) }

VsTables == SeqsUpTo(VsRows, MaxVsRows)

InitOverlap ==
    /\ ar_rows \in ArSlots
    /\ vs_rows \in VsTables
    /\ plan = None
    /\ now = 0 /\ off = 0
    /\ IdleResolver /\ IdleEvent /\ IdleWord /\ IdleLedger /\ IdleSwap /\ IdleLater

\* the dashboard classifies one slot against the VS rows of its day
Classify ==
    /\ plan = None
    /\ plan' = Some([ status             |-> OptimizationStatus(ar_rows, vs_rows),
                      overlapping_skills |-> OverlappingSkills(ar_rows, vs_rows),
                      skills             |-> Range(OverlappingSkills(ar_rows, vs_rows)) ])
    /\ UNCHANGED <<clockVars, ctx, eventVars, wordVars, ar_rows, vs_rows, ledgerVars, swapVars, laterVars>>

NextOverlap == Classify

SpecOverlap == InitOverlap /\ [][NextOverlap]_vars

\* the keywords of the category of event name E
CategoryKeywords(E) ==
    LET root == FirstToken(E)
    IN  IF \E i \in 1..Len(OVERLAP_MAP) : OVERLAP_MAP[i][1] = root
        THEN Range(OVERLAP_MAP[CHOOSE i \in 1..Len(OVERLAP_MAP) : OVERLAP_MAP[i][1] = root][2])
        ELSE { Lower(root) }

HasBuildingWord(text) == WholeWord(<<"b", "u", "i", "l", "d", "i", "n", "g">>, text) \/ WholeWord(<<"c", "o", "n", "s", "t", "r", "u", "c", "t", "i", "o", "n">>, text)

\* C8: a slot is double value iff some VS row of the day has a keyword of the
\* event's category as a whole word in its event or task, or the slot's text
\* and that VS row both hold 'building' or 'construction'; 'Hero Development'
\* against ('Hero Recruitment', 'Hero Shard') is double value with the
\* matched VS events ['Hero Recruitment']
C8_DoubleValue ==
    (plan # None /\ ar_rows # <<>>) =>
        LET E == ar_rows[1].Event
            T == JoinSpace(Column(ar_rows, "Task"))
        IN  /\ The(plan).status = "2x" <=>
                  \E i \in 1..Len(vs_rows) :
                      \/ \E k \in CategoryKeywords(E) :
                             WholeWord(k, vs_rows[i].Event) \/ WholeWord(k, vs_rows[i].Task)
                      \/ /\ HasBuildingWord(E) \/ HasBuildingWord(T)
                         /\ HasBuildingWord(vs_rows[i].Event) \/ HasBuildingWord(vs_rows[i].Task)
            /\ (ar_rows = HeroSlot /\ Range(vs_rows) = {HeroShardRow}) =>
                  /\ The(plan).status = "2x"
                  /\ The(plan).skills = { <<"H", "e", "r", "o", " ", "R", "e", "c", "r", "u", "i", "t", "m", "e", "n", "t">> }

\* a classified slot of uncategorised root whose only match is the
\* building/construction rule
C8_Witness ==
    /\ plan # None
    /\ ar_rows # <<>>
    /\ ar_rows[1].Event = <<"C", "i", "t", "y", " ", "B", "u", "i", "l", "d", "i", "n", "g">>
    /\ vs_rows = << Row(<<"C", "o", "n", "s", "t", "r", "u", "c", "t", "i", "o", "n", " ", "D", "a", "y">>, <<"U", "s", "e", " ", "S", "p", "e", "e", "d", "u", "p">>) >>
    /\ The(plan).status = "2x"

\* the named scenario with the VS row listed twice: one matched event
C8_WitnessHero ==
    /\ plan # None
    /\ ar_rows = HeroSlot
    /\ vs_rows = << HeroShardRow, HeroShardRow >>
    /\ Len(The(plan).overlapping_skills) = 2
    /\ The(plan).skills = { <<"H", "e", "r", "o", " ", "R", "e", "c", "r", "u", "i", "t", "m", "e", "n", "t">> }

-----------------------------------------------------------------------------
(* Daily task templates, active instances and the daily ledger             *)

\* the rarity levels in the order the pages list them
Levels == << <<"N">>, <<"R">>, <<"S", "R">>, <<"S", "S", "R">>, <<"U", "R">> >>

Durations(n, r, sr, ssr, ur) == << n, r, sr, ssr, ur >>

\* the rows of the template table (get_daily_templates)
TemplateTable ==
    << [ name |-> <<"T", "r", "u", "c", "k", "s">>, dur |-> Durations(0, 0, 0, 0, 60), max_daily |-> 1 ],
       [ name |-> <<"S", "q", "u", "a", "d">>, dur |-> Durations(0, 60, 0, 0, 120), max_daily |-> 2 ] >>

\* available_levels: the indices of the levels with duration > 0, in order
AvailableLevels(dur) == { i \in 1..Len(Levels) : dur[i] > 0 }

\* str.find(' ('): the offset of the first ' (' in s, or -1
FindParen(s) ==
    IF \E p \in 1..(Len(s) - 1) : s[p] = " " /\ s[p + 1] = "("
    THEN (CHOOSE p \in 1..(Len(s) - 1) :
              /\ s[p] = " " /\ s[p + 1] = "("
              /\ \A q \in 1..(p - 1) : ~(s[q] = " " /\ s[q + 1] = "(")) - 1
    ELSE 0 - 1

\* stored_name.split(' (')[0] if ' (' in stored_name else stored_name
LedgerBaseName(stored_name) ==
    IF FindParen(stored_name) >= 0
    THEN SubSeq(stored_name, 1, FindParen(stored_name))
    ELSE stored_name

\* the instant of a server wall-clock reading
\* daily_reset of get_daily_activation_count: the last 02:00 on the server clock
DailyReset(now_srv) ==
    IF HourOf(now_srv) < 2
    THEN StartOfDay(now_srv) + 2 * MinPerHour - MinPerDay
    ELSE StartOfDay(now_srv) + 2 * MinPerHour

\* get_daily_activation_count(task_name, now_srv) over the stored table
get_daily_activation_count(active_df, task_name, now_srv, o) ==
    Cardinality({ i \in 1..Len(active_df) :
                    /\ LedgerBaseName(active_df[i].task_name) = task_name
                    /\ active_df[i].start_time_utc >= FromServer(DailyReset(now_srv), o) })

\* remaining > 0: the activation buttons of the template are enabled
CanActivate(tpl) ==
    tpl.max_daily - get_daily_activation_count(active, tpl.name, ToServer(now, off), off) > 0

\* a row whose end is the instant of the activation
NewActiveEndsAtOnce(name, task_name, duration) ==
    [ task_id          |-> <<name, now>>,
      task_name        |-> task_name,
      start_time_utc   |-> now,
      duration_minutes |-> duration,
      end_time_utc     |-> now,
      status           |-> "active" ]

\* the row an activation button appends to the active tasks table
NewActive(name, task_name, duration) ==
    [ task_id          |-> <<name, now>>,
      task_name        |-> task_name,
      start_time_utc   |-> now,
      duration_minutes |-> duration,
      end_time_utc     |-> now + duration,
      status           |-> "active" ]

LevelSuffix(level) == <<" ", "(">> \o Levels[level] \o <<")">>

\* the ledger cycle of an instant: the instant of the last reset
CycleOf(t, o) == FromServer(DailyReset(ToServer(t, o)), o)

LedgerOffsets == { 0 - 2, 0 }

InitLedger ==
    /\ now = 0
    /\ off \in LedgerOffsets
    /\ active = <<>>
    /\ authorized = [i \in 1..Len(TemplateTable) |-> 0]
    /\ swept = None
    /\ IdleResolver /\ IdleEvent /\ IdleWord /\ IdleOverlap /\ IdleSwap /\ IdleLater

\* time passes; the tally of the cycle starts again when a reset is crossed
Tick ==
    /\ now < MaxLedgerTicks * TickMinutes
    /\ now' = now + TickMinutes
    /\ authorized' = IF CycleOf(now', off) = CycleOf(now, off)
                     THEN authorized
                     ELSE [i \in 1..Len(TemplateTable) |-> 0]
    /\ swept' = None
    /\ UNCHANGED <<off, active, ctx, eventVars, wordVars, overlapVars, swapVars, laterVars>>

\* a level button (or the single-level button) of a template on the dashboard
ActivateDashboard ==
    \E i \in 1..Len(TemplateTable) :
        LET tpl   == TemplateTable[i]
            avail == AvailableLevels(tpl.dur)
        IN  \E level \in avail :
                /\ CanActivate(tpl)
                /\ Len(active) < MaxActive
                /\ authorized[i] < MaxAuthorized
                /\ active' = Append(active,
                       NewActive(tpl.name,
                                 IF Cardinality(avail) > 1
                                 THEN tpl.name \o LevelSuffix(level)
                                 ELSE tpl.name,
                                 tpl.dur[level]))
                /\ authorized' = [authorized EXCEPT ![i] = @ + 1]
                /\ swept' = None
                /\ UNCHANGED <<clockVars, ctx, eventVars, wordVars, overlapVars, swapVars, laterVars>>

\* a level button (or the single-level button) on the Daily Tasks page
ActivateTasksPage ==
    \E i \in 1..Len(TemplateTable) :
        LET tpl   == TemplateTable[i]
            avail == AvailableLevels(tpl.dur)
        IN  \E level \in avail :
                /\ CanActivate(tpl)
                /\ Len(active) < MaxActive
                /\ authorized[i] < MaxAuthorized
                /\ active' = Append(active,
                       NewActive(tpl.name, tpl.name \o LevelSuffix(level), tpl.dur[level]))
                /\ authorized' = [authorized EXCEPT ![i] = @ + 1]
                /\ swept' = None
                /\ UNCHANGED <<clockVars, ctx, eventVars, wordVars, overlapVars, swapVars, laterVars>>

\* the complete button of a row of the dashboard's active task list
Complete ==
    \E i \in 1..Len(active) :
        /\ active' = SelectSeq(active, LAMBDA task : task.task_id # active[i].task_id)
        /\ swept' = None
        /\ UNCHANGED <<clockVars, authorized, ctx, eventVars, wordVars, overlapVars, swapVars, laterVars>>

\* a sweep that also keeps the tasks that end at the instant of the sweep
valid_tasks_inclusive(active_df, now_utc) ==
    SelectSeq(active_df, LAMBDA task : task.end_time_utc >= now_utc)

\* valid_tasks: the rows the sweep writes back
valid_tasks(active_df, now_utc) ==
    SelectSeq(active_df, LAMBDA task : task.end_time_utc > now_utc)

\* cleanup_expired_tasks() over a table that exists and is not empty
cleanup_expired_tasks ==
    /\ active # <<>>
    /\ active' = valid_tasks(active, now)
    /\ swept' = Some([at |-> now, before |-> active])
    /\ UNCHANGED <<clockVars, authorized, ctx, eventVars, wordVars, overlapVars, swapVars, laterVars>>

NextLedger ==
    \/ Tick
    \/ ActivateDashboard
    \/ ActivateTasksPage
    \/ Complete
    \/ cleanup_expired_tasks

SpecLedger == InitLedger /\ [][NextLedger]_vars

Count(i) == get_daily_activation_count(active, TemplateTable[i].name, ToServer(now, off), off)

\* C3: within one reset cycle the activation count of a template never
\* decreases, whatever activate, complete and sweep steps are taken
C3_CountMonotone ==
    [][ \A i \in 1..Len(TemplateTable) :
            CycleOf(now', off') = CycleOf(now, off) =>
                get_daily_activation_count(active', TemplateTable[i].name, ToServer(now', off'), off')
                    >= get_daily_activation_count(active, TemplateTable[i].name, ToServer(now, off), off)
      ]_vars

\* C4: with no counted instance in the cycle the first max_daily activations
\* are authorized, no further one is authorized before the next reset, and
\* from the reset on the count is 0 and activation is authorized again
C4_Quota ==
    \A i \in 1..Len(TemplateTable) :
        /\ authorized[i] < TemplateTable[i].max_daily => CanActivate(TemplateTable[i])
        /\ authorized[i] <= TemplateTable[i].max_daily
        /\ authorized[i] = 0 => Count(i) = 0

\* C15: a sweep at instant t removes exactly the stored instances that end
\* at or before t, leaves the others in place, in order and with every
\* field as it was, and a second sweep at t changes nothing.
C15_SweepExact ==
    swept # None =>
        LET t      == The(swept).at
            before == The(swept).before
            keep   == { i \in 1..Len(before) : ~(before[i].end_time_utc <= t) }
        IN  /\ Len(active) = Cardinality(keep)
            /\ \A i \in keep :
                   active[Cardinality({ j \in keep : j <= i })] = before[i]
            /\ \A k \in 1..Len(active) : active[k].end_time_utc > t
            /\ valid_tasks(active, t) = active

\* a sweep removed an instance that ended at the very instant of the sweep
\* and kept one that ends later
C15_Witness ==
    /\ swept # None
    /\ \E i \in 1..Len(The(swept).before) :
           The(swept).before[i].end_time_utc = The(swept).at
    /\ active # <<>>
    /\ Len(active) < Len(The(swept).before)

\* C22: the stored instances have pairwise distinct task_id, whatever
\* activations were made (two of one template at one instant included), and
\* the complete button of a row removes that row and no other.
C22_UniqueTaskIds ==
    /\ [](\A i, j \in 1..Len(active) : i # j => active[i].task_id # active[j].task_id)
    /\ [][Complete => Len(active') = Len(active) - 1]_vars

\* the row is an instance of the template at the level: it bears the name
\* the pages write for that level and lasts the template's duration
InstanceOf(task, tpl, level) ==
    /\ level \in AvailableLevels(tpl.dur)
    /\ task.duration_minutes = tpl.dur[level]
    /\ \/ task.task_name = tpl.name \o LevelSuffix(level)
       \/ task.task_name = tpl.name /\ Cardinality(AvailableLevels(tpl.dur)) = 1

\* C23: every stored instance ends duration_minutes after its start, and
\* duration_minutes is positive and is the duration its template gives for
\* the level activated, after any activate, complete and sweep steps.
C23_EndIsStartPlusDuration ==
    \A k \in 1..Len(active) :
        /\ active[k].end_time_utc = active[k].start_time_utc + active[k].duration_minutes
        /\ active[k].duration_minutes > 0
        /\ \E i \in 1..Len(TemplateTable), level \in 1..Len(Levels) :
               InstanceOf(active[k], TemplateTable[i], level)

\* a sweep has removed an instance and an instance of the second template
\* at UR is still stored
C23_Witness ==
    /\ swept # None
    /\ Len(The(swept).before) > Len(active)
    /\ \E k \in 1..Len(active) : InstanceOf(active[k], TemplateTable[2], 5)

\* get_active_tasks_in_window(start_utc, end_utc): the names of the stored
\* tasks that overlap the window
get_active_tasks_in_window(active_df, start_utc, end_utc) ==
    LET overlapping == SelectSeq(active_df, LAMBDA task :
                           task.start_time_utc < end_utc /\ task.end_time_utc > start_utc)
    IN  [k \in 1..Len(overlapping) |-> overlapping[k].task_name]

\* has_tasks_ending_in_window(start_utc, end_utc)
has_tasks_ending_in_window(active_df, start_utc, end_utc) ==
    \E k \in 1..Len(active_df) :
        start_utc <= active_df[k].end_time_utc /\ active_df[k].end_time_utc < end_utc

\* "Daily Tasks" and "Tasks Ending" of row i of the plan built at the
\* present instant
PlanTasks(i) ==
    LET row        == PlanRow(setup_timezone_and_time(now, off), i)
        b_srv      == FromServer(row.start, off)
        window_end == FromServer(row.end, off)
    IN  [ start        |-> b_srv,
          end          |-> window_end,
          daily_tasks  |-> get_active_tasks_in_window(active, b_srv, window_end),
          tasks_ending |-> has_tasks_ending_in_window(active, b_srv, window_end) ]

\* C28: in every row of the plan flagged "Tasks Ending", each stored
\* instance whose end lies in the row's window [start, end) is named in the
\* row's Daily Tasks list.
C28_EndingTasksListed ==
    \A i \in 0..5 :
        PlanTasks(i).tasks_ending =>
            \A k \in 1..Len(active) :
                (PlanTasks(i).start <= active[k].end_time_utc
                     /\ active[k].end_time_utc < PlanTasks(i).end)
                    => \E m \in 1..Len(PlanTasks(i).daily_tasks) :
                           PlanTasks(i).daily_tasks[m] = active[k].task_name

-----------------------------------------------------------------------------
(* Slot-swap override                                                      *)

ArRow(day, slot, event) ==
    [Day |-> day, Type |-> "Arms Race", Slot |-> slot, Event |-> event, Task |-> "task"]

VsRow(day, event) ==
    [Day |-> day, Type |-> "VS", Slot |-> 0, Event |-> event, Task |-> "task"]

\* a schedule with one Arms-Race row per (day, slot)
FullSchedule ==
    << ArRow("Sunday", 1, "S1"), ArRow("Sunday", 2, "S2"), ArRow("Sunday", 3, "S3"),
       ArRow("Sunday", 4, "S4"), ArRow("Sunday", 5, "S5"), ArRow("Sunday", 6, "S6"),
       ArRow("Monday", 1, "M1"), ArRow("Monday", 2, "M2"), ArRow("Monday", 3, "M3"),
       ArRow("Monday", 4, "M4"), ArRow("Monday", 5, "M5"), ArRow("Monday", 6, "M6"),
       ArRow("Tuesday", 1, "T1"), ArRow("Tuesday", 2, "T2"), ArRow("Tuesday", 3, "T3"),
       ArRow("Tuesday", 4, "T4"), ArRow("Tuesday", 5, "T5"), ArRow("Tuesday", 6, "T6"),
       VsRow("Monday", "V1"), VsRow("Tuesday", "V2") >>

\* a schedule with two rows in one slot, empty slots and a day without rows
SparseSchedule ==
    << ArRow("Monday", 1, "M1"), VsRow("Monday", "V1"), ArRow("Monday", 1, "M1"),
       ArRow("Monday", 3, "M3"), ArRow("Monday", 6, "M6"),
       ArRow("Tuesday", 1, "T1"), ArRow("Tuesday", 2, "T2"), ArRow("Tuesday", 5, "T5") >>

Schedules == { FullSchedule, SparseSchedule }

\* is_swap_expired(swap_data, now_server); opt is what get_daily_slot_swap
\* returned, o the offset of now_server's timezone.  The date string
\* 'YYYY-MM-DD' is the day index of the server date; pendulum.parse(.., tz='UTC')
\* reads it as midnight UTC of that date.
is_swap_expired(opt, now_srv, o) ==
    IF opt = None THEN TRUE
    ELSE LET swap_date        == The(opt).date * MinPerDay
             swap_reset_start == StartOfDay(ToServer(swap_date, o)) + 2 * MinPerHour
             swap_reset_end   == swap_reset_start + MinPerDay
         IN  now_srv >= swap_reset_end

\* can_swap_today(now_server): the answer, and the file it leaves behind
can_swap_today(opt, now_srv, o) ==
    IF opt = None THEN [answer |-> TRUE, file |-> opt]
    ELSE IF is_swap_expired(opt, now_srv, o) THEN [answer |-> TRUE, file |-> None]
    ELSE [answer |-> FALSE, file |-> opt]

\* a filter that takes the Arms-Race rows of every day
IsAnyDayAr(row, day) == row.Type = "Arms Race"

\* the mask (df['Day'] == day) & (df['Type'] == 'Arms Race')
IsTodayAr(row, day) == row.Day = day /\ row.Type = "Arms Race"

\* a retagging that writes to_slot over from_slot and then from_slot over
\* to_slot, with no temporary value in between
RetagNoTemp(slot, from_slot, to_slot) ==
    LET s1 == IF slot = from_slot THEN to_slot ELSE slot
        s2 == IF s1 = to_slot THEN from_slot ELSE s1
    IN  s2

\* the three assignments to today_ar['Slot'], in order
Retag(slot, from_slot, to_slot) ==
    LET s1 == IF slot = from_slot THEN 0 - 1 ELSE slot
        s2 == IF s1 = to_slot THEN from_slot ELSE s1
        s3 == IF s2 = 0 - 1 THEN to_slot ELSE s2
    IN  s3

\* apply_slot_swap(df, day, now_server): the returned table, the file it
\* leaves behind, and its argument afterwards (the slots are rewritten in a
\* copy of the selected rows, and the result is a new table)
apply_slot_swap(table, day, now_srv, o, opt) ==
    IF opt = None \/ is_swap_expired(opt, now_srv, o)
    THEN [result |-> table, file |-> None, input |-> table]
    ELSE LET from_slot == The(opt).from_slot
             to_slot   == The(opt).to_slot
             today_ar  == SelectSeq(table, LAMBDA row : IsTodayAr(row, day))
             swapped   == [i \in 1..Len(today_ar) |->
                              [today_ar[i] EXCEPT !.Slot = Retag(@, from_slot, to_slot)]]
             df_other  == SelectSeq(table, LAMBDA row : ~IsTodayAr(row, day))
         IN  [ result |-> IF today_ar = <<>> THEN table ELSE df_other \o swapped,
               file   |-> opt,
               input  |-> table ]

\* one run of the dashboard script that handles no click: the table it shows
\* and the swap file it leaves behind
Render(opt) ==
    LET c       == setup_timezone_and_time(now, off)
        applied == apply_slot_swap(df, c.ar_day, c.now_server, off, opt)
        asked   == can_swap_today(applied.file, c.now_server, off)
    IN  [ view |-> [at |-> c.now_server, day |-> c.ar_day, rows |-> applied.result],
          swap_available |-> asked.answer,
          file |-> asked.file ]

SwapOffsets == ServerOffsets

InitSwap ==
    /\ now = 0
    /\ off \in SwapOffsets
    /\ df \in Schedules
    /\ swap = None
    /\ view = [at |-> ToServer(0, off), day |-> DayName(ToServer(0, off)), rows |-> df]
    /\ armedAt = None
    /\ armDays = <<>>
    /\ IdleResolver /\ IdleEvent /\ IdleWord /\ IdleOverlap /\ IdleLedger /\ IdleLater

otherThanSwap == <<ctx, eventVars, wordVars, overlapVars, ledgerVars, laterVars>>

\* time passes with no run of the script
SwapTick ==
    /\ now < MaxSwapTicks * SwapTickMinutes
    /\ now' = now + SwapTickMinutes
    /\ UNCHANGED <<off, df, swap, view, armedAt, armDays, otherThanSwap>>

\* the Refresh button or the 60-second reload: one run of the script
Refresh ==
    /\ swap' = Render(swap).file
    /\ view' = Render(swap).view
    /\ UNCHANGED <<clockVars, df, armedAt, armDays, otherThanSwap>>

\* a click on "Swap Slots" with a target chosen in the select box: the run
\* that handles it saves the swap only where it draws the button, and ends
\* in st.rerun()
SwapSlots ==
    \E target_slot \in 1..6 :
        LET c     == setup_timezone_and_time(now, off)
            first == Render(swap)
            saved == Some([ date      |-> DayIndex(c.now_server),
                            from_slot |-> c.current_slot,
                            to_slot   |-> target_slot ])
        IN  /\ target_slot # c.current_slot
            /\ Len(armDays) < MaxArms
            /\ IF first.swap_available
               THEN /\ swap' = Render(saved).file
                    /\ view' = Render(saved).view
                    /\ armedAt' = Some(c.now_server)
                    /\ armDays' = Append(armDays, DayIndex(c.now_server))
               ELSE /\ swap' = first.file
                    /\ view' = first.view
                    /\ UNCHANGED <<armedAt, armDays>>
            /\ UNCHANGED <<clockVars, df, otherThanSwap>>

\* a click on "Cancel Swap": the run that handles it clears the swap only
\* where it draws the button, and ends in st.rerun()
CancelSwap ==
    LET first == Render(swap)
    IN  /\ swap # None
        /\ IF ~first.swap_available /\ first.file # None
           THEN /\ swap' = Render(None).file
                /\ view' = Render(None).view
                /\ armedAt' = None
           ELSE /\ swap' = first.file
                /\ view' = first.view
                /\ UNCHANGED armedAt
        /\ UNCHANGED <<clockVars, df, armDays, otherThanSwap>>

NextSwap ==
    \/ SwapTick
    \/ Refresh
    \/ SwapSlots
    \/ CancelSwap

SpecSwap == InitSwap /\ [][NextSwap]_vars


\* the table the dashboard shows was computed at the present instant
ViewIsCurrent == view # None /\ view.at = ToServer(now, off)

Occurrences(rows, r) == Cardinality({ i \in 1..Len(rows) : rows[i] = r })

\* no two Arms-Race rows of a table share a day and a slot
OneEventPerSlot(rows) ==
    \A i, j \in 1..Len(rows) :
        ( /\ rows[i].Type = "Arms Race" /\ rows[j].Type = "Arms Race"
          /\ rows[i].Day = rows[j].Day /\ rows[i].Slot = rows[j].Slot ) => i = j

\* C7: with a non-expired swap {from_slot = a, to_slot = b} stored, the table
\* apply_slot_swap returns holds exactly the rows of the schedule with the
\* Arms-Race rows of the day retagged by the transposition (a b): a row tagged
\* a is tagged b, a row tagged b is tagged a, every other row is as it was;
\* and it has one event per (day, slot) whenever the schedule had.
C7_SwapPermutation ==
    (swap # None /\ ViewIsCurrent) =>
        LET a == The(swap).from_slot
            b == The(swap).to_slot
            Sigma(s) == IF s = a THEN b ELSE IF s = b THEN a ELSE s
            Expected(row) == IF IsTodayAr(row, view.day)
                             THEN [row EXCEPT !.Slot = Sigma(@)] ELSE row
        IN  /\ Len(view.rows) = Len(df)
            /\ \A i \in 1..Len(df) :
                   Occurrences(view.rows, Expected(df[i]))
                       = Cardinality({ j \in 1..Len(df) : Expected(df[j]) = Expected(df[i]) })
            /\ OneEventPerSlot(df) => OneEventPerSlot(view.rows)

\* a swap of two occupied slots is stored and the dashboard shows the full
\* schedule with the two events exchanged
C7_Witness ==
    /\ swap # None /\ ViewIsCurrent
    /\ df = FullSchedule
    /\ view.rows # df
    /\ \E i, j \in 1..Len(df) :
           /\ IsTodayAr(df[i], view.day) /\ df[i].Slot = The(swap).from_slot
           /\ IsTodayAr(df[j], view.day) /\ df[j].Slot = The(swap).to_slot
           /\ Occurrences(view.rows, [df[i] EXCEPT !.Slot = The(swap).to_slot]) = 1
           /\ Occurrences(view.rows, [df[j] EXCEPT !.Slot = The(swap).from_slot]) = 1

\* C5: at most one swap is saved during one game day: no two saves of a swap
\* fall on the same server date.
C5_OneSwapPerDay ==
    \A i, j \in 1..Len(armDays) : i # j => armDays[i] # armDays[j]

\* the daily resets that follow server instant t: the next midnight, where the
\* resolver's game day changes, and the next 02:00, the reset the swap module
\* names
NextMidnight(t) == StartOfDay(t) + MinPerDay
NextTwoOClock(t) ==
    IF MinuteOfDay(t) < 2 * MinPerHour
    THEN StartOfDay(t) + 2 * MinPerHour
    ELSE StartOfDay(t) + MinPerDay + 2 * MinPerHour

Earlier(x, y) == IF x <= y THEN x ELSE y
Later(x, y) == IF x <= y THEN y ELSE x

\* C6: a swap saved at server instant t and not cancelled is stored and not
\* expired at every instant before the first daily reset after t, is expired
\* at every instant from the daily reset after t on, and while it is stored
\* the rows it retags are rows of the day it was saved on.
C6_OverrideLifetime ==
    armedAt # None =>
        LET t   == The(armedAt)
            n   == ToServer(now, off)
        IN  /\ n < Earlier(NextMidnight(t), NextTwoOClock(t))
                   => (swap # None /\ ~is_swap_expired(swap, n, off))
            /\ n >= Later(NextMidnight(t), NextTwoOClock(t))
                   => is_swap_expired(swap, n, off)
            /\ (swap # None /\ ViewIsCurrent /\ view.rows # df)
                   => view.day = DayName(t)

-----------------------------------------------------------------------------
(* Direct calls of the slot_swap functions                                 *)

\* get_daily_slot_swap(): None when the file is missing, else the record it
\* holds (the files here are the ones save_daily_slot_swap writes: valid
\* JSON with a date)
get_daily_slot_swap(file) == IF file = None THEN None ELSE file

\* save_daily_slot_swap(from_slot, to_slot, game_date): the file afterwards
save_daily_slot_swap(from_slot, to_slot, game_date) ==
    Some([date |-> game_date, from_slot |-> from_slot, to_slot |-> to_slot])

\* the (from_slot, to_slot) pairs saved, and the days asked for
CallPairs == { <<1, 2>>, <<3, 6>>, <<5, 4>> }
CallDays == { "Sunday", "Monday", "Tuesday", "Wednesday" }

\* the record of a call: its name, now_server, the file and the table it
\* found, the day it was given, and what it returned
Call(fn, at, file, table, day, answer, result) ==
    Some([ fn |-> fn, at |-> at, file |-> file, table |-> table, day |-> day,
           answer |-> answer, result |-> result ])

InitCalls ==
    /\ now = 0
    /\ off \in SwapOffsets
    /\ df \in Schedules
    /\ swap = None
    /\ view = None
    /\ armedAt = None
    /\ armDays = <<>>
    /\ called = None
    /\ IdleResolver /\ IdleEvent /\ IdleWord /\ IdleOverlap /\ IdleLedger
    /\ IdlePlan /\ IdleSec /\ IdleGroup /\ IdleTemplates /\ IdleNames /\ IdleEditor

otherThanCalls ==
    <<ctx, eventVars, wordVars, overlapVars, ledgerVars, view, armDays, plan24,
      secVars, groupVars, templateVars, nameVars, editorVars>>

\* time passes between two calls
CallTick ==
    /\ now < MaxSwapTicks * SwapTickMinutes
    /\ now' = now + SwapTickMinutes
    /\ called' = None
    /\ UNCHANGED <<off, df, swap, armedAt, otherThanCalls>>

\* save_daily_slot_swap with the server date of the present instant
CallSave ==
    \E pair \in CallPairs :
        /\ swap' = save_daily_slot_swap(pair[1], pair[2], DayIndex(ToServer(now, off)))
        /\ armedAt' = Some(ToServer(now, off))
        /\ called' = None
        /\ UNCHANGED <<clockVars, df, otherThanCalls>>

CallCanSwapToday ==
    LET now_server == ToServer(now, off)
        r          == can_swap_today(swap, now_server, off)
    IN  /\ swap' = r.file
        /\ called' = Call("can_swap_today", now_server, swap, df, "", r.answer, <<>>)
        /\ UNCHANGED <<clockVars, df, armedAt, otherThanCalls>>

CallApplySlotSwap ==
    \E day \in CallDays :
        LET now_server == ToServer(now, off)
            r          == apply_slot_swap(df, day, now_server, off, swap)
        IN  /\ swap' = r.file
            /\ df' = r.input
            /\ called' = Call("apply_slot_swap", now_server, swap, df, day, TRUE, r.result)
            /\ UNCHANGED <<clockVars, armedAt, otherThanCalls>>

CallGetDailySlotSwap ==
    /\ called' = Call("get_daily_slot_swap", ToServer(now, off), swap, df, "", TRUE,
                      get_daily_slot_swap(swap))
    /\ UNCHANGED <<clockVars, df, swap, armedAt, otherThanCalls>>

NextCalls ==
    \/ CallTick
    \/ CallSave
    \/ CallCanSwapToday
    \/ CallApplySlotSwap
    \/ CallGetDailySlotSwap

SpecCalls == InitCalls /\ [][NextCalls]_vars

HasCalled(fn) == called # None /\ The(called).fn = fn

\* C19: can_swap_today answers true exactly when no swap is stored or the
\* reset-to-reset window of the stored swap has elapsed at now_server (a swap
\* saved at t is in its window before the first daily reset after t and past
\* it from the daily reset after t on); when it answers true on a stored
\* swap the file is gone afterwards, and when it answers false the file
\* holds what it held before.
C19_CanSwapToday ==
    HasCalled("can_swap_today") =>
        LET c == The(called)
            t == The(armedAt)
        IN  /\ c.file = None => c.answer
            /\ (c.file # None /\ c.at < Earlier(NextMidnight(t), NextTwoOClock(t)))
                   => ~c.answer
            /\ (c.file # None /\ c.at >= Later(NextMidnight(t), NextTwoOClock(t)))
                   => c.answer
            /\ (c.answer /\ c.file # None) => swap = None
            /\ ~c.answer => swap = c.file

\* C24: get_daily_slot_swap returns a record only while the stored swap is
\* valid: with no file, or with a stored swap past its expiry, it returns
\* None.
C24_GetReturnsValid ==
    HasCalled("get_daily_slot_swap") =>
        LET c == The(called)
        IN  /\ c.file = None => c.result = None
            /\ (c.file # None /\ is_swap_expired(c.file, c.at, off)) => c.result = None

\* the rows a stored swap may retag: the Arms-Race rows of the given day in
\* from_slot or to_slot
Touched(c, r) ==
    /\ c.file # None
    /\ r.Day = c.day
    /\ r.Type = "Arms Race"
    /\ r.Slot \in { The(c.file).from_slot, The(c.file).to_slot }

RowsOf(rows) == { rows[i] : i \in 1..Len(rows) }

\* C20: apply_slot_swap leaves the schedule it was given as it was; every
\* row that is not an Arms-Race row of the given day in from_slot or to_slot
\* is in the returned table as often as in the given one, with the same day,
\* type, slot, event and task; and with no swap stored, or an expired one,
\* the returned table is the given one.
C20_ApplyFrame ==
    HasCalled("apply_slot_swap") =>
        LET c == The(called)
        IN  /\ df = c.table
            /\ \A r \in RowsOf(c.table) \cup RowsOf(c.result) :
                   ~Touched(c, r) => Occurrences(c.result, r) = Occurrences(c.table, r)
            /\ (c.file = None \/ is_swap_expired(c.file, c.at, off))
                   => c.result = c.table

\* a call under a stored swap in force that retagged rows of the given day
\* and returned other rows of that day as they were
C20_Witness ==
    /\ HasCalled("apply_slot_swap")
    /\ The(called).file # None
    /\ ~is_swap_expired(The(called).file, The(called).at, off)
    /\ RowsOf(The(called).result) # RowsOf(The(called).table)
    /\ \E r \in RowsOf(The(called).result) :
           r.Day = The(called).day /\ r.Type = "Arms Race" /\ ~Touched(The(called), r)

\* C26: the ledger's daily reset, the end of a swap's life and the change
\* of the resolver's game day are one instant of the server day: at every
\* instant the ledger's last reset is the start of the resolver's game day,
\* and a swap saved at that instant is expired from the next change of the
\* game day on and not a minute before.
C26_OneReset ==
    ctx # None =>
        LET c     == The(ctx)
            t     == c.now_server
            saved == save_daily_slot_swap(1, 2, DayIndex(t))
        IN  /\ DailyReset(t) = c.game_day_start
            /\ is_swap_expired(saved, NextMidnight(t), off)
            /\ ~is_swap_expired(saved, NextMidnight(t) - 1, off)

-----------------------------------------------------------------------------
(* Secretary buff                                                          *)

\* two of the keys of SECRETARIES
SecretaryTypes == { "Secretary of Defense", "Secretary of Science" }

\* to_iso8601_string of a UTC instant: its calendar date and time of day
to_iso8601_string(t) == [ordinal |-> OrdinalOf(t), minute |-> MinuteOfDay(t)]

\* pendulum.parse of such a string
parse_iso8601(str) == (str.ordinal - EpochOrdinal) * MinPerDay + str.minute

\* get_secretary_event(): None when the file is missing or holds null
get_secretary_event(file) == IF file = <<>> THEN None ELSE file[1]

\* a save that leaves a stored record in place
save_secretary_event_keep(file, event) ==
    IF get_secretary_event(file) # None THEN file ELSE <<event>>

\* save_secretary_event(event): the file afterwards
save_secretary_event(file, event) == <<event>>

\* the dashboard's countdown with the test of the end made strict
SecCountdownLate(file, now_utc) ==
    LET sec_event == get_secretary_event(file)
    IN  IF sec_event = None THEN [label |-> "none", file |-> file]
        ELSE LET sec_start == parse_iso8601(The(sec_event).start_time_utc)
                 sec_end   == parse_iso8601(The(sec_event).end_time_utc)
             IN  IF now_utc > sec_end
                 THEN [label |-> "none", file |-> save_secretary_event(file, None)]
                 ELSE IF now_utc < sec_start
                 THEN [label |-> "starts", file |-> file]
                 ELSE [label |-> "ends", file |-> file]

\* the dashboard's secretary buff countdown: sec_countdown and the file afterwards
SecCountdown(file, now_utc) ==
    LET sec_event == get_secretary_event(file)
    IN  IF sec_event = None THEN [label |-> "none", file |-> file]
        ELSE LET sec_start == parse_iso8601(The(sec_event).start_time_utc)
                 sec_end   == parse_iso8601(The(sec_event).end_time_utc)
             IN  IF now_utc >= sec_end
                 THEN [label |-> "none", file |-> save_secretary_event(file, None)]
                 ELSE IF now_utc < sec_start
                 THEN [label |-> "starts", file |-> file]
                 ELSE [label |-> "ends", file |-> file]

\* the Secretary Buffs page's banner: status_str and the file afterwards
SecBanner(file, now_check) ==
    LET sec_event == get_secretary_event(file)
    IN  IF sec_event = None THEN [label |-> "none", file |-> file]
        ELSE LET sec_start == parse_iso8601(The(sec_event).start_time_utc)
                 sec_end   == parse_iso8601(The(sec_event).end_time_utc)
             IN  IF now_check >= sec_end
                 THEN [label |-> "expired and was cleared",
                       file  |-> save_secretary_event(file, None)]
                 ELSE IF now_check < sec_start
                 THEN [label |-> "Starts at", file |-> file]
                 ELSE [label |-> "Ends at", file |-> file]

\* the record the page builds from the chosen start
SecRecord(sec_type, sec_start_time) ==
    LET sec_end_time == sec_start_time + 5
    IN  [ type           |-> sec_type,
          start_time_utc |-> to_iso8601_string(sec_start_time),
          end_time_utc   |-> to_iso8601_string(sec_end_time) ]

\* a start taken from the difference of the two clock readings as it is
StartFromServerTimeNoWrap(srv_tgt, c) ==
    c.now_utc + (srv_tgt.h * 60 + srv_tgt.m)
                    - (HourOf(c.now_server) * 60 + (MinuteOfDay(c.now_server) % 60))

\* "Server Time" input: the start for a target hour and minute
StartFromServerTime(srv_tgt, c) ==
    LET delta == (srv_tgt.h * 60 + srv_tgt.m)
                     - (HourOf(c.now_server) * 60 + (MinuteOfDay(c.now_server) % 60))
        delta_minutes == IF delta < 0 THEN delta + 1440 ELSE delta
    IN  c.now_utc + delta_minutes

\* "People in Line" input
StartFromQueue(people_ahead, c) == c.now_utc + people_ahead * 5

SecTargets == { HM(0, 0), HM(0, 10), HM(22, 10) }
SecQueues == { 0, 2 }
SecOffsets == { 0 - 2, 0 }
SecSteps == { 1, 5 }

Seen(page, op, before, label, saved) ==
    Some([page |-> page, op |-> op, at |-> now, before |-> before,
          label |-> label, saved |-> saved])

InitSec ==
    /\ now = 0
    /\ off \in SecOffsets
    /\ sec_file = <<>>
    /\ sec_seen = None
    /\ IdleResolver /\ IdleEvent /\ IdleWord /\ IdleOverlap /\ IdleLedger /\ IdleSwap
    /\ IdlePlan /\ IdleGroup /\ IdleTemplates /\ IdleCall /\ IdleNames /\ IdleEditor

otherThanSec ==
    <<ctx, eventVars, wordVars, overlapVars, ledgerVars, swapVars, plan24, groupVars,
      templateVars, callVars, nameVars, editorVars>>

SecTick ==
    \E d \in SecSteps :
        /\ now + d <= MaxSecNow
        /\ now' = now + d
        /\ sec_seen' = None
        /\ UNCHANGED <<off, sec_file, otherThanSec>>

\* a run of the dashboard
ObserveDashboard ==
    LET r == SecCountdown(sec_file, now)
    IN  /\ sec_file' = r.file
        /\ sec_seen' = Seen("dashboard", "observe", get_secretary_event(sec_file), r.label, None)
        /\ UNCHANGED <<clockVars, otherThanSec>>

\* a run of the Secretary Buffs page with no click
ObserveBuffsPage ==
    LET r == SecBanner(sec_file, now)
    IN  /\ sec_file' = r.file
        /\ sec_seen' = Seen("buffs", "observe", get_secretary_event(sec_file), r.label, None)
        /\ UNCHANGED <<clockVars, otherThanSec>>

\* a click on "Set Secretary Buff": the run that handles it, and the rerun
SetBuff ==
    \E sec_type \in SecretaryTypes, mode \in {"Server Time", "People in Line"},
       srv_tgt \in SecTargets, people_ahead \in SecQueues :
        LET c      == setup_timezone_and_time(now, off)
            start  == IF mode = "Server Time"
                      THEN StartFromServerTime(srv_tgt, c)
                      ELSE StartFromQueue(people_ahead, c)
            event  == SecRecord(sec_type, start)
            banner == SecBanner(sec_file, now)
            saved  == save_secretary_event(banner.file, Some(event))
            rerun  == SecBanner(saved, now)
        IN  /\ sec_file' = rerun.file
            /\ sec_seen' = Some(The(Seen("buffs", "set", get_secretary_event(sec_file),
                                         rerun.label, Some(event)))
                                @@ [ time_mode |-> mode, srv_tgt |-> srv_tgt,
                                     people_ahead |-> people_ahead ])
            /\ UNCHANGED <<clockVars, otherThanSec>>

\* a click on "Clear active buff", drawn under the banner of a stored buff
\* that has not ended: the run that handles it, and the rerun
ClearBuff ==
    LET banner == SecBanner(sec_file, now)
        saved  == save_secretary_event(banner.file, None)
        rerun  == SecBanner(saved, now)
    IN  /\ banner.label \in {"Starts at", "Ends at"}
        /\ sec_file' = rerun.file
        /\ sec_seen' = Seen("buffs", "clear", get_secretary_event(sec_file), rerun.label, None)
        /\ UNCHANGED <<clockVars, otherThanSec>>

NextSec ==
    \/ SecTick
    \/ ObserveDashboard
    \/ ObserveBuffsPage
    \/ SetBuff
    \/ ClearBuff

SpecSec == InitSec /\ [][NextSec]_vars

\* C12: a run of the dashboard or of the Secretary Buffs page at instant t
\* that finds a stored buff with start s and end e shows it as starting iff
\* t < s, as ending iff s <= t < e, and clears the file iff t >= e; with
\* t < e the stored record is left as it was.
C12_BuffObservation ==
    ( /\ sec_seen # None
      /\ The(sec_seen).op = "observe"
      /\ The(sec_seen).before # None ) =>
        LET seen == The(sec_seen)
            t    == seen.at
            s    == parse_iso8601(The(seen.before).start_time_utc)
            e    == parse_iso8601(The(seen.before).end_time_utc)
        IN  /\ seen.label \in {"starts", "Starts at"} <=> t < s
            /\ seen.label \in {"ends", "Ends at"} <=> (s <= t /\ t < e)
            /\ get_secretary_event(sec_file) = None <=> t >= e
            /\ t < e => get_secretary_event(sec_file) = seen.before

\* the dashboard, run exactly at the end of a stored buff, has cleared it
C12_Witness ==
    /\ sec_seen # None
    /\ The(sec_seen).op = "observe"
    /\ The(sec_seen).page = "dashboard"
    /\ The(sec_seen).before # None
    /\ The(sec_seen).at = parse_iso8601(The(The(sec_seen).before).end_time_utc)
    /\ sec_file = <<None>>

\* C13: the file holds at most one buff, a stored buff ends five minutes
\* after it starts, and after "Set Secretary Buff" the stored buff is the new
\* one whatever was stored before.
C13_SingleBuff ==
    /\ Len(sec_file) <= 1
    /\ get_secretary_event(sec_file) # None =>
           parse_iso8601(The(get_secretary_event(sec_file)).end_time_utc)
               = parse_iso8601(The(get_secretary_event(sec_file)).start_time_utc) + 5
    /\ (sec_seen # None /\ The(sec_seen).op = "set") =>
           get_secretary_event(sec_file) = The(sec_seen).saved

\* a buff was set while a different one was stored and had already started
C13_Witness ==
    /\ sec_seen # None
    /\ The(sec_seen).op = "set"
    /\ The(sec_seen).before # None
    /\ The(sec_seen).before # The(sec_seen).saved
    /\ parse_iso8601(The(The(sec_seen).before).start_time_utc) <= The(sec_seen).at
    /\ get_secretary_event(sec_file) = The(sec_seen).saved

\* C25: a buff set by server time with target H:M while the server clock
\* reads h:m starts d = ((60H + M) - (60h + m)) mod 1440 minutes after now,
\* 0 <= d < 1440, at H:M on the server clock; set with p people in line it
\* starts 5p minutes after now; in both modes it ends after now.
C25_BuffStart ==
    (sec_seen # None /\ The(sec_seen).op = "set") =>
        LET s      == The(sec_seen)
            start  == parse_iso8601(The(s.saved).start_time_utc)
            end    == parse_iso8601(The(s.saved).end_time_utc)
            clock  == MinuteOfDay(ToServer(s.at, off))
            target == 60 * s.srv_tgt.h + s.srv_tgt.m
            d      == (target - clock) % 1440
        IN  /\ s.time_mode = "Server Time" =>
                   /\ start = s.at + d
                   /\ 0 <= d /\ d < 1440
                   /\ MinuteOfDay(ToServer(start, off)) = target
            /\ s.time_mode = "People in Line" => start = s.at + 5 * s.people_ahead
            /\ end > s.at

\* a buff set by server time for a target the server clock has passed today
C25_Witness ==
    /\ sec_seen # None
    /\ The(sec_seen).op = "set"
    /\ The(sec_seen).time_mode = "Server Time"
    /\ 60 * The(sec_seen).srv_tgt.h + The(sec_seen).srv_tgt.m
           < MinuteOfDay(ToServer(The(sec_seen).at, off))
    /\ parse_iso8601(The(The(sec_seen).saved).start_time_utc) > The(sec_seen).at + 60

-----------------------------------------------------------------------------
(* Grouping of task names in the 24-hour plan                              *)

\* str.rfind(ch): the last position of ch, 0 when there is none
RFind(s, ch) ==
    IF \E i \in 1..Len(s) : s[i] = ch
    THEN CHOOSE i \in 1..Len(s) : s[i] = ch /\ \A j \in (i + 1)..Len(s) : s[j] # ch
    ELSE 0

\* str.strip()
RECURSIVE LStrip(_)
LStrip(s) == IF s # <<>> /\ IsSpace(Head(s)) THEN LStrip(Tail(s)) ELSE s

RECURSIVE RStrip(_)
RStrip(s) ==
    IF s # <<>> /\ IsSpace(s[Len(s)]) THEN RStrip(SubSeq(s, 1, Len(s) - 1)) ELSE s

Strip(s) == RStrip(LStrip(s))

\* '(' in task and task.endswith(')')
HasSuffix(task) == RFind(task, "(") # 0 /\ task # <<>> /\ task[Len(task)] = ")"

\* task[:last_paren].strip()
TaskBaseName(task) == Strip(SubSeq(task, 1, RFind(task, "(") - 1))

\* task[last_paren+1:-1].strip()
TaskSuffix(task) == Strip(SubSeq(task, RFind(task, "(") + 1, Len(task) - 1))

\* the position of a key in the dict, 0 when it is not a key
KeyIndex(grouped, key) ==
    IF \E i \in 1..Len(grouped) : grouped[i].base_name = key
    THEN CHOOSE i \in 1..Len(grouped) : grouped[i].base_name = key
    ELSE 0

\* one pass of the first loop: the dict after the task
GroupTask(grouped, task) ==
    IF HasSuffix(task)
    THEN LET base_name == TaskBaseName(task)
             suffix    == TaskSuffix(task)
             g1        == IF KeyIndex(grouped, base_name) = 0
                          THEN Append(grouped, [base_name |-> base_name, suffixes |-> <<>>])
                          ELSE grouped
             k         == KeyIndex(g1, base_name)
         IN  [g1 EXCEPT ![k].suffixes = Append(@, suffix)]
    ELSE IF KeyIndex(grouped, task) = 0
         THEN Append(grouped, [base_name |-> task, suffixes |-> <<>>])
         ELSE grouped

RECURSIVE GroupTasks(_, _)
GroupTasks(grouped, names) ==
    IF names = <<>> THEN grouped
    ELSE GroupTasks(GroupTask(grouped, Head(names)), Tail(names))

\* ", ".join(suffixes)
RECURSIVE JoinComma(_)
JoinComma(parts) ==
    IF parts = <<>> THEN <<>>
    ELSE IF Len(parts) = 1 THEN parts[1]
    ELSE parts[1] \o <<",", " ">> \o JoinComma(Tail(parts))

\* group_tasks_by_base_name(task_names)
group_tasks_by_base_name(names) ==
    IF names = <<>> THEN <<>>
    ELSE LET grouped == GroupTasks(<<>>, names)
         IN  [ i \in 1..Len(grouped) |->
                 IF grouped[i].suffixes # <<>>
                 THEN grouped[i].base_name \o <<" ", "(">> \o JoinComma(grouped[i].suffixes) \o <<")">>
                 ELSE grouped[i].base_name ]

TaskNames ==
    { <<"S", "e", "c", "r", "e", "t", " ", "M", "o", "b", "i", "l", "e", " ", "S", "q", "u", "a", "d", " ", "(", "U", "R", ")">>, <<"S", "e", "c", "r", "e", "t", " ", "M", "o", "b", "i", "l", "e", " ", "S", "q", "u", "a", "d", " ", "(", "S", "S", "R", ")">>, <<"O", "t", "h", "e", "r", " ", "T", "a", "s", "k">>,
      <<"S", "e", "c", "r", "e", "t", " ", "M", "o", "b", "i", "l", "e", " ", "S", "q", "u", "a", "d">>, <<"T", "r", "u", "c", "k", "s", " ", "(", "U", "R", ")">>, <<"L", "o", "n", "e", " ", "T", "a", "s", "k", " ", "(", "S", "S", "R", ")", " ", "x">> }

TaskNameLists == UNION { [1..n -> TaskNames] : n \in 0..MaxTaskNames }

InitGroup ==
    /\ task_names \in TaskNameLists
    /\ grouped_tasks = None
    /\ now = 0 /\ off = 0
    /\ IdleResolver /\ IdleEvent /\ IdleWord /\ IdleOverlap /\ IdleLedger /\ IdleSwap
    /\ IdlePlan /\ IdleSec /\ IdleTemplates /\ IdleCall /\ IdleNames /\ IdleEditor

otherThanGroup ==
    <<clockVars, ctx, eventVars, wordVars, overlapVars, ledgerVars, swapVars, plan24, secVars,
      templateVars, callVars, nameVars, editorVars>>

\* the plan groups the names of the tasks active in a window
GroupNames ==
    /\ grouped_tasks = None
    /\ grouped_tasks' = Some(group_tasks_by_base_name(task_names))
    /\ UNCHANGED <<task_names, otherThanGroup>>

NextGroup == GroupNames

SpecGroup == InitGroup /\ [][NextGroup]_vars

\* the base name of a task name, with or without a suffix
BaseOf(task) == IF HasSuffix(task) THEN TaskBaseName(task) ELSE task

\* the members of a list in order of first occurrence
RECURSIVE Distinct(_)
Distinct(s) ==
    IF s = <<>> THEN <<>>
    ELSE LET front == Distinct(SubSeq(s, 1, Len(s) - 1))
         IN  IF \E i \in 1..Len(front) : front[i] = s[Len(s)]
             THEN front ELSE Append(front, s[Len(s)])

\* the suffixes of the instances of a base name, in order
SuffixesOf(names, base) ==
    LET with == SelectSeq(names, LAMBDA task : HasSuffix(task) /\ TaskBaseName(task) = base)
    IN  [ i \in 1..Len(with) |-> TaskSuffix(with[i]) ]

\* C16: the result has one label per distinct base name, in order of first
\* occurrence; a base name with suffixed instances is shown as
\* 'Base (S1, S2, ...)' with the distinct suffixes of its instances, a name
\* with no suffixed instance is shown as it is; the empty list gives the
\* empty list.
C16_GroupLabels ==
    grouped_tasks # None =>
        LET labels == The(grouped_tasks)
            bases  == Distinct([ i \in 1..Len(task_names) |-> BaseOf(task_names[i]) ])
        IN  /\ Len(labels) = Len(bases)
            /\ \A k \in 1..Len(bases) :
                   LET suffixes == Distinct(SuffixesOf(task_names, bases[k]))
                   IN  labels[k] = IF suffixes # <<>>
                                   THEN bases[k] \o <<" ", "(">> \o JoinComma(suffixes) \o <<")">>
                                   ELSE bases[k]
            /\ task_names = <<>> => labels = <<>>
            /\ task_names = << <<"S", "e", "c", "r", "e", "t", " ", "M", "o", "b", "i", "l", "e", " ", "S", "q", "u", "a", "d", " ", "(", "U", "R", ")">>, <<"S", "e", "c", "r", "e", "t", " ", "M", "o", "b", "i", "l", "e", " ", "S", "q", "u", "a", "d", " ", "(", "S", "S", "R", ")">>, <<"O", "t", "h", "e", "r", " ", "T", "a", "s", "k">> >>
                   => labels = << <<"S", "e", "c", "r", "e", "t", " ", "M", "o", "b", "i", "l", "e", " ", "S", "q", "u", "a", "d", " ", "(", "U", "R", ",", " ", "S", "S", "R", ")">>, <<"O", "t", "h", "e", "r", " ", "T", "a", "s", "k">> >>

-----------------------------------------------------------------------------
(* Daily task templates: editor and Restore Defaults                       *)

\* the text pandas gives for a boolean cell (astype(str))
BoolStr(b) == IF b THEN <<"T", "r", "u", "e">> ELSE <<"F", "a", "l", "s", "e">>

\* the boolean read_csv gives for the text of an is_default cell
ParseBool(text) == Lower(text) = <<"t", "r", "u", "e">>

\* current_df['is_default'].astype(str).str.lower() == 'false'
IsCustomTemplate(row) == Lower(BoolStr(row.is_default)) = <<"f", "a", "l", "s", "e">>

TemplateRow(name, dur, max_daily, is_default) ==
    [ name |-> name, dur |-> dur, max_daily |-> max_daily, is_default |-> is_default ]

\* the rows of the restore file (RESTORE_TEMPLATES_FILE), which is present
RestoreTable ==
    [ i \in 1..Len(TemplateTable) |->
        TemplateRow(TemplateTable[i].name, TemplateTable[i].dur,
                    TemplateTable[i].max_daily, ParseBool(<<"t", "r", "u", "e">>)) ]

\* a restore that writes the restore file over the table, as the special
\* events page does
restore_defaults_overwrite(current_df, restore_df) == restore_df

\* the Restore Defaults button: merged_df
restore_defaults(current_df, restore_df) ==
    LET custom_tasks == SelectSeq(current_df, IsCustomTemplate)
    IN  restore_df \o custom_tasks

TemplateNames == { <<"T", "r", "u", "c", "k", "s">>, <<"S", "q", "u", "a", "d">>, <<"R", "a", "l", "l", "y">> }
TemplateDurations == { Durations(0, 0, 0, 0, 60), Durations(10, 20, 30, 45, 60) }
TemplateQuotas == { 1, 5 }

TableNames(table) == { table[i].name : i \in 1..Len(table) }

RowsNotNamed(table, name) == SelectSeq(table, LAMBDA row : row.name # name)

InitTemplates ==
    /\ templates = RestoreTable
    /\ restored = None
    /\ now = 0 /\ off = 0
    /\ IdleResolver /\ IdleEvent /\ IdleWord /\ IdleOverlap /\ IdleLedger /\ IdleSwap
    /\ IdlePlan /\ IdleSec /\ IdleGroup /\ IdleCall /\ IdleNames /\ IdleEditor

otherThanTemplates ==
    <<clockVars, ctx, eventVars, wordVars, overlapVars, ledgerVars, swapVars, plan24,
      secVars, groupVars, callVars, nameVars, editorVars>>

\* "Save Template" with no template being edited
AddTemplate ==
    \E name \in TemplateNames, dur \in TemplateDurations, max_daily \in TemplateQuotas :
        /\ Len(templates) < MaxTemplates
        /\ name \notin TableNames(templates)
        /\ templates' = Append(templates,
                               TemplateRow(name, dur, max_daily, ParseBool(<<"f", "a", "l", "s", "e">>)))
        /\ restored' = None
        /\ UNCHANGED otherThanTemplates

\* "Save Template" while row i is being edited
EditTemplate ==
    \E i \in 1..Len(templates), name \in TemplateNames, dur \in TemplateDurations,
       max_daily \in TemplateQuotas :
        LET edit == templates[i]
        IN  /\ name \notin TableNames(RowsNotNamed(templates, edit.name))
            /\ templates' = Append(RowsNotNamed(templates, edit.name),
                                   TemplateRow(name, dur, max_daily, edit.is_default))
            /\ restored' = None
            /\ UNCHANGED otherThanTemplates

\* the delete button of a template
DeleteTemplate ==
    \E i \in 1..Len(templates) :
        /\ templates' = RowsNotNamed(templates, templates[i].name)
        /\ restored' = None
        /\ UNCHANGED otherThanTemplates

\* the Restore Defaults button
RestoreDefaults ==
    /\ templates' = restore_defaults(templates, RestoreTable)
    /\ Len(templates') <= MaxTemplates
    /\ restored' = Some([before |-> templates])
    /\ UNCHANGED otherThanTemplates

NextTemplates ==
    \/ AddTemplate
    \/ EditTemplate
    \/ DeleteTemplate
    \/ RestoreDefaults

SpecTemplates == InitTemplates /\ [][NextTemplates]_vars

\* C17: after Restore Defaults the table is the factory set followed by every
\* template that was not a default before; no such template is removed or
\* altered, and every default row is a factory row again.
C17_RestoreKeepsCustom ==
    restored # None =>
        LET before == The(restored).before
            user   == SelectSeq(before, LAMBDA row : row.is_default = FALSE)
        IN  /\ templates = RestoreTable \o user
            /\ \A i \in 1..Len(before) :
                   before[i].is_default = FALSE =>
                       \E k \in 1..Len(templates) : templates[k] = before[i]
            /\ \A k \in 1..Len(templates) :
                   templates[k].is_default = TRUE =>
                       \E j \in 1..Len(RestoreTable) : templates[k] = RestoreTable[j]

\* a restore of a table that held a user template and an edited default
C17_Witness ==
    /\ restored # None
    /\ \E i \in 1..Len(The(restored).before) : The(restored).before[i].is_default = FALSE
    /\ \E i \in 1..Len(The(restored).before) :
           /\ The(restored).before[i].is_default = TRUE
           /\ \A j \in 1..Len(RestoreTable) : The(restored).before[i] # RestoreTable[j]
    /\ Len(templates) = Len(RestoreTable) + 1

\* C27: after any saves, deletes and restores no two rows of the template
\* table have the same name.
C27_UniqueTemplateNames ==
    \A i, j \in 1..Len(templates) : i # j => templates[i].name # templates[j].name


-----------------------------------------------------------------------------
(* Instance names and the name the ledger counts them under                 *)

\* the length k of the rarity between the parentheses when the name ends in
\* '(' + one to three capital letters + ')' + optional blanks, else 0
RarityLen(name) ==
    LET t == RStrip(name)
        Fits(k) == /\ Len(t) >= k + 2
                   /\ t[Len(t)] = ")"
                   /\ t[Len(t) - k - 1] = "("
                   /\ \A j \in (Len(t) - k)..(Len(t) - 1) : t[j] \in Range(UpperCase)
    IN  IF \E k \in 1..3 : Fits(k) THEN CHOOSE k \in 1..3 : Fits(k) ELSE 0

\* get_base_name(name): re.sub(r'\s*\([A-Z]{1,3}\)\s*$', '', name).strip()
get_base_name(name) ==
    LET t == RStrip(name)
        k == RarityLen(name)
    IN  IF k = 0 THEN Strip(name) ELSE Strip(SubSeq(t, 1, Len(t) - k - 2))

\* get_rarity_from_name(name): the group of r'\(([A-Z]{1,3})\)\s*$', or None
get_rarity_from_name(name) ==
    LET t == RStrip(name)
        k == RarityLen(name)
    IN  IF k = 0 THEN None ELSE Some(SubSeq(t, Len(t) - k, Len(t) - 1))

\* merged_durations of a group of one template row
MergedDurations(name, dur) ==
    LET rarity == get_rarity_from_name(name)
    IN  IF rarity = None THEN dur
        ELSE [i \in 1..Len(Levels) |-> IF Levels[i] = The(rarity) THEN dur[i] ELSE 0]

\* names typed into the template form
NameCases ==
    { <<"T", "r", "u", "c", "k", "s">>, <<"S", "q", "u", "a", "d">>, <<"O", "r", "e", " ", "(", "B", "i", "g", ")">>, <<"T", "r", "u", "c", "k", "s", " ", "(", "U", "R", ")">>, <<"A", " ", "(", "B", ")">>,
      <<"D", "i", "g", " ", "(", "d", "e", "e", "p", ")", " ", "(", "S", "R", ")">>, <<"X", "(", "Y", ")">> }

\* duration columns: one level, two levels, and two levels without UR
DurationCases ==
    { Durations(0, 0, 0, 0, 60), Durations(0, 60, 0, 0, 120), Durations(30, 0, 45, 0, 0) }

\* the row written and the name the page counts it under
Issue(page, template, key, level, row) ==
    Some([ page |-> page, template |-> template, key |-> key, level |-> level, row |-> row,
           counted |-> get_daily_activation_count(<<row>>, key, ToServer(now, off), off) ])

InitNames ==
    /\ now = 0
    /\ off \in LedgerOffsets
    /\ issued = None
    /\ IdleResolver /\ IdleEvent /\ IdleWord /\ IdleOverlap /\ IdleLedger /\ IdleSwap
    /\ IdlePlan /\ IdleSec /\ IdleGroup /\ IdleTemplates /\ IdleCall /\ IdleEditor

otherThanNames ==
    <<ctx, eventVars, wordVars, overlapVars, ledgerVars, swapVars, plan24, secVars,
      groupVars, templateVars, callVars, editorVars>>

NameTick ==
    /\ now < MaxLedgerTicks * TickMinutes
    /\ now' = now + TickMinutes
    /\ issued' = None
    /\ UNCHANGED <<off, otherThanNames>>

\* an activation button of the template's box on the dashboard, the active
\* tasks table being empty
IssueDashboard ==
    \E name \in NameCases, dur \in DurationCases :
        LET avail == AvailableLevels(dur)
        IN  \E level \in avail :
                /\ issued' = Issue("dashboard", name, name, level,
                       NewActive(name,
                                 IF Cardinality(avail) > 1
                                 THEN name \o LevelSuffix(level)
                                 ELSE name,
                                 dur[level]))
                /\ UNCHANGED <<clockVars, otherThanNames>>

\* an activation button of the group of one template on the Daily Tasks page
IssueTasksPage ==
    \E name \in NameCases, dur \in DurationCases :
        LET base_name == get_base_name(name)
            merged    == MergedDurations(name, dur)
            avail     == AvailableLevels(merged)
        IN  \E level \in avail :
                /\ issued' = Issue("daily_tasks", name, base_name, level,
                       NewActive(base_name, base_name \o LevelSuffix(level), merged[level]))
                /\ UNCHANGED <<clockVars, otherThanNames>>

NextNames ==
    \/ NameTick
    \/ IssueDashboard
    \/ IssueTasksPage

SpecNames == InitNames /\ [][NextNames]_vars

\* C21: the name of the row an activation writes is mapped back by the
\* ledger's base-name extraction to the template's name, which is the name
\* the page counts under, so the row counts once against that template,
\* on the dashboard and on the Daily Tasks page, whatever the template's
\* name.
C21_NameRoundTrip ==
    issued # None =>
        LET a == The(issued)
        IN  /\ LedgerBaseName(a.row.task_name) = a.template
            /\ a.key = a.template
            /\ a.counted = 1


-----------------------------------------------------------------------------
(* Special events editor                                                   *)

\* format('HH:mm') of an instant, and the minute of the day of such a text
FormatHM(t) == HM(HourOf(t), MinuteOfDay(t) % 60)
MinuteOfHM(hm) == hm.h * 60 + hm.m

\* the wall clock of a UTC instant in a zone u hours ahead of UTC, and back
InZone(t, u) == t + u * MinPerHour
FromZone(w, u) == w - u * MinPerHour

\* the "Save to File" conversion of a time typed in the user's zone:
\* parse(today + text).set(tz=user_tz).in_timezone('UTC').format('HH:mm')
SaveTime(text, user_off) ==
    LET dummy == StartOfDay(InZone(now, user_off))
    IN  FormatHM(FromZone(dummy + MinuteOfHM(text), user_off))

\* the editor's initial value for a stored time:
\* now_server.at(sh, sm).in_timezone(user_tz).format("HH:mm")
ShowTime(stored, user_off) ==
    LET at == StartOfDay(ToServer(now, off)) + MinuteOfHM(stored)
    IN  FormatHM(InZone(FromServer(at, off), user_off))

\* the offsets of some of the selectable zones, the server offsets tried,
\* and the times typed
UserOffsets == { 0 - 4, 0, 9 }
EditorOffsets == { 0 - 2, 0, 3 }
EnteredTimes ==
    { <<HM(12, 0), HM(14, 0)>>, <<HM(22, 0), HM(2, 0)>>, <<HM(1, 30), HM(3, 0)>>,
      <<HM(8, 0), HM(12, 0)>> }
MaxEditorTicks == 4

InitEditor ==
    /\ now = 0
    /\ off \in EditorOffsets
    /\ edited = None
    /\ IdleResolver /\ IdleEvent /\ IdleWord /\ IdleOverlap /\ IdleLedger /\ IdleSwap
    /\ IdlePlan /\ IdleSec /\ IdleGroup /\ IdleTemplates /\ IdleCall /\ IdleNames

otherThanEditor ==
    <<ctx, eventVars, wordVars, overlapVars, ledgerVars, swapVars, plan24, secVars,
      groupVars, templateVars, callVars, nameVars>>

EditorTick ==
    /\ now < MaxEditorTicks * SlotMinutes
    /\ now' = now + SlotMinutes
    /\ UNCHANGED <<off, edited, otherThanEditor>>

\* "Save to File" of a weekly event on every day, not all-day
SaveEvent ==
    \E user_off \in UserOffsets \cup {off}, typed \in EnteredTimes :
        /\ edited' = Some([ user_off |-> user_off,
                            entered  |-> typed,
                            row      |-> [ days       |-> AllDays,
                                           freq       |-> "weekly",
                                           ref_week   |-> 0,
                                           start_time |-> SaveTime(typed[1], user_off),
                                           end_time   |-> SaveTime(typed[2], user_off) ],
                            shown    |-> None ])
        /\ UNCHANGED <<clockVars, otherThanEditor>>

\* the edit button of the saved event: the form opens with init_s, init_e
EditEvent ==
    /\ edited # None
    /\ edited' = Some([ The(edited) EXCEPT !.shown =
                          Some(<< ShowTime(The(edited).row.start_time, The(edited).user_off),
                                  ShowTime(The(edited).row.end_time, The(edited).user_off) >>) ])
    /\ UNCHANGED <<clockVars, otherThanEditor>>

NextEditor ==
    \/ EditorTick
    \/ SaveEvent
    \/ EditEvent

SpecEditor == InitEditor /\ [][NextEditor]_vars

\* the entered interval, repeated every day, meets the server-time window
\* that starts at w: some day's occurrence [s, s + length) overlaps
\* [w, w + 4 h)
EnteredMeets(a, w) ==
    LET s_min  == MinuteOfHM(a.entered[1])
        e_min  == MinuteOfHM(a.entered[2])
        length == IF e_min <= s_min THEN e_min + MinPerDay - s_min ELSE e_min - s_min
    IN  \E d \in {0 - 1, 0, 1} :
            LET s == ToServer(FromZone(StartOfDay(InZone(FromServer(w, off), a.user_off))
                                           + d * MinPerDay + s_min, a.user_off), off)
            IN  s < w + SlotMinutes /\ s + length > w

\* C29: an event saved with times typed in the user's zone shows the typed
\* times again when it is opened in the editor, and is_event_in_window
\* reports it for exactly the server-time windows that meet the typed
\* interval, whatever the server offset and the user's zone.
C29_EditorRoundTrip ==
    (edited # None /\ The(edited).shown # None) =>
        LET a == The(edited)
        IN  /\ The(a.shown) = a.entered
            /\ \A k \in 0..5 :
                   LET w == StartOfDay(ToServer(now, off)) + k * SlotMinutes
                   IN  is_event_in_window(a.row, w) <=> EnteredMeets(a, w)

=============================================================================
